---- MODULE Spec2Model ----
(***************************************************************************)
(* The request execution pipeline of 1000fetches (core.ts,                 *)
(* createHttpRequest / fetcher): one invocation of fetcher, its attempt    *)
(* loop, the per-attempt timeout timer and abort controllers, the caller's *)
(* AbortSignal, the two middleware hooks and the retry decision.           *)
(***************************************************************************)
EXTENDS Integers, Sequences, FiniteSets, TLC

\* Largest maxRetries a client is configured with in the model.
MaxRetriesBound == 2

\* The longest body, in chunks, of an instrumented stream.
MaxChunks == 3

\* HTTP statuses the modelled transport answers with.
Statuses == {200, 400}

\* JavaScript's undefined / an option that was not given.
Undefined == "undefined"

(***************************************************************************)
(* Retry options.  A RetryOptions layer (client-level or per-request) maps *)
(* each field to <<>> when the property is not present and to <<v>> when   *)
(* it is present with value v; object spread copies present properties.    *)
(***************************************************************************)
DEFAULT_RETRY_OPTIONS ==
  [ maxRetries         |-> 3,
    retryDelay         |-> 300,
    backoffFactor      |-> 2,
    retryStatusCodes   |-> {429, 500, 502, 503, 504},
    retryNetworkErrors |-> TRUE,
    maxRetryDelay      |-> 30000,
    shouldRetry        |-> "default" ]   \* the function () => true

\* {...base, ...layer}
Spread(base, layer) ==
  [f \in DOMAIN base |-> IF layer[f] # <<>> THEN layer[f][1] ELSE base[f]]

\* A RetryOptions layer with no property present.
NoRetryOptions == [f \in DOMAIN DEFAULT_RETRY_OPTIONS |-> <<>>]

\* Client-level retryOptions the model draws from.
ClientRetryOptions ==
  [ maxRetries         : {<<n>> : n \in (-1)..MaxRetriesBound},
    retryDelay         : {<<>>},
    backoffFactor      : {<<>>},
    retryStatusCodes   : {<<>>, <<{400}>>},
    retryNetworkErrors : {<<>>, <<FALSE>>},
    maxRetryDelay      : {<<>>},
    shouldRetry        : {<<>>, <<"custom">>} ]

\* Backoff policies: the default schedule under a cap it reaches on the
\* second wait (300, 500, 500), a small base delay (3, 6, 12), a factor
\* below one (300, 0, 0) and a factor of one (3, 3, 3).
BackoffPolicies ==
  { [NoRetryOptions EXCEPT !.maxRetryDelay = <<500>>],
    [NoRetryOptions EXCEPT !.retryDelay = <<3>>],
    [NoRetryOptions EXCEPT !.backoffFactor = <<0>>],
    [NoRetryOptions EXCEPT !.retryDelay = <<3>>, !.backoffFactor = <<1>>,
                           !.maxRetryDelay = <<500>>] }

\* Client-level retryOptions that vary the backoff policy.
BackoffRetryOptions ==
  { [policy EXCEPT !.maxRetries = <<n>>] :
      policy \in BackoffPolicies, n \in {-1, MaxRetriesBound} }

\* Per-request retryOptions the model draws from.
RequestRetryOptions ==
  [ maxRetries         : {<<>>},
    retryDelay         : {<<>>},
    backoffFactor      : {<<>>},
    retryStatusCodes   : {<<>>},
    retryNetworkErrors : {<<>>},
    maxRetryDelay      : {<<>>},
    shouldRetry        : {<<>>, <<Undefined>>} ]

(***************************************************************************)
(* Errors and envelopes.  One record shape for every settled value.        *)
(***************************************************************************)
NoUrl == ""

Value(kind, name, status, phase, url, method, cause) ==
  [ kind |-> kind, name |-> name, status |-> status, phase |-> phase,
    url |-> url, method |-> method, cause |-> cause ]

None == Value("none", "", 0, "", NoUrl, "", "")

\* An error with a name only (TypeError, AbortError, Error, ...).
PlainError(name) == Value("error", name, 0, "", NoUrl, "", "")

HttpError(status, url, method) ==
  Value("error", "HttpError", status, "", url, method, "")

\* cause: error instanceof Error ? error : undefined
MiddlewareError(phase, url, method, thrown) ==
  Value("error", "MiddlewareError", 0, phase, url, method,
        IF thrown = "Error" THEN "Error" ELSE Undefined)

TimeoutError(cause) == Value("error", "TimeoutError", 0, "", NoUrl, "", cause)

SerializationError(cause) ==
  Value("error", "SerializationError", 0, "", NoUrl, "", cause)

SchemaValidationError ==
  Value("error", "SchemaValidationError", 0, "", NoUrl, "", "Error")

PathParameterError ==
  Value("error", "PathParameterError", 0, "", NoUrl, "", "")

\* ResponseType: the envelope processResponse builds.
ResponseObj(status, url, method) ==
  Value("envelope", "", status, "", url, method, "")

\* What a hook can throw: an Error instance or any other value.
Thrown == {"Error", "nonError"}

VARIABLES
  config,            \* HttpClientConfig: retryOptions, the two hooks
  options,           \* HttpRequestOptions: method, signal, retryOptions
  pc,                \* where fetcher is
  requestContext,    \* RequestContext: url, method, signal
  attempt,           \* loop variable of the attempt loop
  lastError,         \* lastError (None while undefined)
  response,          \* status of the response being processed, 0 if none
  responseData,      \* envelope awaiting the response hook
  timers,            \* attempts whose timeoutId is still pending
  controllerAborted, \* controller.signal.aborted of the current attempt
  combinedAborted,   \* combinedController.signal.aborted, current attempt
  finalSignal,       \* which signal the transport got
  listeners,         \* attempts whose cleanup listens on the caller signal
  callerAborted,     \* options.signal.aborted
  result,            \* how the returned promise settled (None while pending)
  calls,             \* customFetch invocations
  waits,             \* sleep invocations
  reqMwRuns,         \* onRequestMiddleware invocations
  respMwRuns,        \* onResponseMiddleware invocations
  errs,              \* names and statuses of the lastErrors seen so far
  failures,          \* attempts that ended in the catch block
  reqMwThrown,       \* what onRequestMiddleware threw, "" if it did not
  predicateCall,     \* the shouldRetry call of the latest catch block
  delays,            \* the arguments of the sleep calls, in order
  heap,              \* header objects: the client's defaults, one per call
  inv,               \* the locals of each of two concurrent fetcher calls
  policy,            \* mergedRetryOptions as the fetcher computed it
  rq,                \* one request being built, from template to transport
  rs,                \* one response being processed by processResponse
  stream,            \* one instrumented upload or download stream
  client             \* one createHttpClient call and a request on its result

fetcherVars ==
  << config, options, pc, requestContext, attempt, lastError, response,
     responseData, timers, controllerAborted, combinedAborted, finalSignal,
     listeners, callerAborted, result, calls, waits, reqMwRuns, respMwRuns,
     errs, failures, reqMwThrown, predicateCall, delays >>

pairVars == << heap, inv >>

unitVars == << policy, rq, rs, stream, client >>

vars == << fetcherVars, pairVars, unitVars >>

\* The two caller layers spread in the wrong order: the client wins.
mergedRetryOptions_ClientLast ==
  Spread(Spread(DEFAULT_RETRY_OPTIONS, options.retryOptions),
         config.retryOptions)

\* {...DEFAULT_RETRY_OPTIONS, ...config.retryOptions, ...requestRetryOptions}
mergedRetryOptions ==
  Spread(Spread(DEFAULT_RETRY_OPTIONS, config.retryOptions),
         options.retryOptions)

maxRetries == mergedRetryOptions.maxRetries

ResolvedUrl == "https://api.example.com/users/1"
MiddlewareUrl == "https://api.example.com/v2/users/1"

\* No shouldRetry call was made (attempt < maxRetries was false, or no
\* attempt has failed yet).
NoCall == [error |-> "", status |-> 0, retryCount |-> -1, outcome |-> ""]

(***************************************************************************)
(* Two concurrent calls of one client's fetcher.  Header objects live in   *)
(* a heap so that sharing one object between calls can be told from        *)
(* copying it: cell ClientHeaders is config.headers, cell i is the Headers *)
(* object that call i builds for its requestContext.                       *)
(***************************************************************************)
Invocations == {1, 2}

ClientHeaders == 0

NoRef == -1

HeaderNames == {"accept", "authorization", "content-type"}

EmptyHeaders == [h \in HeaderNames |-> ""]

\* config.headers a client can be created with
DefaultHeaders ==
  {EmptyHeaders, [EmptyHeaders EXCEPT !["accept"] = "application/json"]}

\* options.headers a call can be made with
RequestHeaders ==
  {EmptyHeaders, [EmptyHeaders EXCEPT !["accept"] = "text/plain"]}

\* options.retryOptions a call of the pair can be made with
PairRetryOptions ==
  {NoRetryOptions, [NoRetryOptions EXCEPT !.maxRetries = <<0>>]}

\* A call that has not been made yet.
NotCalled ==
  [ pc |-> "idle", headers |-> NoRef, retryOptions |-> NoRetryOptions,
    maxRetries |-> 0, attempt |-> 0, lastError |-> "", timer |-> FALSE,
    result |-> "" ]

\* createHttpRequest has returned; fetcher has not been called.
ClientCreated ==
  /\ \E defaultHeaders \in DefaultHeaders :
       heap = [r \in {ClientHeaders} \cup Invocations |->
                 IF r = ClientHeaders THEN defaultHeaders ELSE EmptyHeaders]
  /\ inv = [i \in Invocations |-> NotCalled]

\* mergedRetryOptions has not been computed.
NoPolicy == [f \in DOMAIN DEFAULT_RETRY_OPTIONS |-> <<>>]

\* No request is being built, no response is being processed.
NoRequest == [pc |-> "none"]

NoResponse == [pc |-> "none"]

\* No stream is instrumented, no client is being created.
NoStream == [pc |-> "none"]

NoClient == [pc |-> "none"]

UnitsIdle ==
  /\ policy = NoPolicy
  /\ rq = NoRequest
  /\ rs = NoResponse
  /\ stream = NoStream
  /\ client = NoClient

\* fetcher has just been called: nothing has run yet.
Called ==
  /\ pc = "resolve"
  /\ requestContext = [url |-> NoUrl, method |-> "", signal |-> FALSE]
  /\ attempt = 0
  /\ lastError = None
  /\ response = 0
  /\ responseData = None
  /\ timers = {}
  /\ controllerAborted = FALSE
  /\ combinedAborted = FALSE
  /\ finalSignal = "none"
  /\ listeners = {}
  /\ callerAborted \in {FALSE, options.signal}
  /\ result = None
  /\ calls = 0
  /\ waits = 0
  /\ reqMwRuns = 0
  /\ respMwRuns = 0
  /\ errs = {}
  /\ failures = 0
  /\ reqMwThrown = ""
  /\ predicateCall = NoCall
  /\ delays = << >>

Init ==
  /\ config \in [ retryOptions         : ClientRetryOptions,
                  onRequestMiddleware  : BOOLEAN,
                  onResponseMiddleware : BOOLEAN ]
  /\ options \in [ method       : {"GET"},
                   signal       : BOOLEAN,
                   retryOptions : RequestRetryOptions ]
  /\ Called
  /\ heap = [r \in {ClientHeaders} \cup Invocations |-> EmptyHeaders]
  /\ inv = [i \in Invocations |-> NotCalled]
  /\ UnitsIdle

(***************************************************************************)
(* Pure helpers of core.ts.                                                *)
(***************************************************************************)
\* for (...; attempt <= maxRetries; ...)
LoopCondition(a, n) == a <= n

\* The increment forgotten: the loop variable never advances.
NextAttempt_NoIncrement(a) == a

\* attempt += 1
NextAttempt(a) == a + 1

\* The bound on the attempts dropped from the retry decision.
RetryAllowed_Always(a, n) == TRUE

\* Off by one: the last permitted retry is never taken.
RetryAllowed_OffByOne(a, n) == a + 1 < n

\* The comparison of the loop header used in the retry decision.
RetryAllowed_Inclusive(a, n) == a <= n

\* attempt < maxRetries, the first conjunct of the retry decision
RetryAllowed(a, n) == a < n

\* Every status is accepted.
validateStatus_AcceptsAll(status) == TRUE

\* options.validateStatus || (status => status >= 200 && status < 300)
validateStatus(status) == status >= 200 /\ status < 300

\* if (lastError.name === 'AbortError') lastError = new TimeoutError(...)
Normalize(error) ==
  IF error.name = "AbortError" THEN TimeoutError("AbortError") ELSE error

\* What calling the policy's shouldRetry function can do.  The default
\* () => true only returns true; a caller's predicate may return either
\* value or throw; nothing is called when the property is undefined.
PredicateOutcomes(fn) ==
  CASE fn = "default" -> {"true"}
    [] fn = "custom"  -> {"true", "false", "throws"}
    [] OTHER          -> {"notCalled"}

Bool(b) == IF b THEN "true" ELSE "false"

\* The status list consulted before the policy's predicate.
shouldRetry_ListFirst(error, retryCount, retryOptions, predicate) ==
  IF error.name = "HttpError"
  THEN Bool(error.status \in retryOptions.retryStatusCodes)
  ELSE IF retryOptions.shouldRetry # Undefined
       THEN predicate
       ELSE IF error.name \in {"NetworkError", "TypeError"}
            THEN Bool(retryOptions.retryNetworkErrors)
            ELSE "false"

\* The network branch lost: only listed statuses are retried.
shouldRetry_NoNetwork(error, retryCount, retryOptions, predicate) ==
  IF retryOptions.shouldRetry # Undefined
  THEN predicate
  ELSE IF error.name = "HttpError"
       THEN Bool(error.status \in retryOptions.retryStatusCodes)
       ELSE "false"

\* async function shouldRetry(error, retryCount, retryOptions); predicate is
\* the outcome of retryOptions.shouldRetry(error, retryCount) when called.
shouldRetry(error, retryCount, retryOptions, predicate) ==
  IF retryOptions.shouldRetry # Undefined
  THEN predicate
  ELSE IF error.name = "HttpError"
       THEN Bool(error.status \in retryOptions.retryStatusCodes)
       ELSE IF error.name \in {"NetworkError", "TypeError"}
            THEN Bool(retryOptions.retryNetworkErrors)
            ELSE "false"

RECURSIVE Pow(_, _)
\* Math.pow(base, exponent) for a non-negative integer exponent
Pow(base, exponent) ==
  IF exponent = 0 THEN 1 ELSE base * Pow(base, exponent - 1)

Min(a, b) == IF a <= b THEN a ELSE b

\* The exponent counts the attempts left instead of the attempts made.
calculateRetryDelay_Countdown(a, retryOptions) ==
  Min(retryOptions.retryDelay
        * Pow(retryOptions.backoffFactor, retryOptions.maxRetries - a),
      retryOptions.maxRetryDelay)

\* The cap forgotten.
calculateRetryDelay_Uncapped(a, retryOptions) ==
  retryOptions.retryDelay * Pow(retryOptions.backoffFactor, a)

\* function calculateRetryDelay(attempt, retryOptions).  The merged options
\* always carry the three numbers, so the ?? defaults are never taken.
calculateRetryDelay(a, retryOptions) ==
  LET baseDelay     == retryOptions.retryDelay
      backoffFactor == retryOptions.backoffFactor
      maxDelay      == retryOptions.maxRetryDelay
      delay         == baseDelay * Pow(backoffFactor, a)
  IN  Min(delay, maxDelay)

\* const delay = calculateRetryDelay(attempt, mergedRetryOptions): every
\* value the fetcher can pass to sleep after attempt a.  The call reads the
\* attempt index and the merged options and nothing else.
RetryDelays(a, retryOptions) == {calculateRetryDelay(a, retryOptions)}

\* The caller's signal not wired into the combined signal.
EffectiveAborted_CallerIgnored ==
  CASE finalSignal = "controller" -> controllerAborted
    [] finalSignal = "combined"   -> controllerAborted
    [] finalSignal = "caller"     -> callerAborted
    [] OTHER                      -> FALSE

\* The timeout controller not wired into the signal the transport gets.
EffectiveAborted_TimerIgnored ==
  CASE finalSignal = "combined" -> callerAborted
    [] finalSignal = "caller"   -> callerAborted
    [] OTHER                    -> FALSE

\* signal.aborted of the signal handed to customFetch
EffectiveAborted ==
  CASE finalSignal = "controller" -> controllerAborted
    [] finalSignal = "combined"   -> combinedAborted
    [] finalSignal = "caller"     -> callerAborted
    [] OTHER                      -> FALSE

(***************************************************************************)
(* Steps of fetcher.                                                       *)
(***************************************************************************)
\* The promise settles: return value or throw value.
Settle(v) ==
  /\ result' = v
  /\ pc' = "done"

\* The catch block of the attempt loop, through to the next suspension
\* point (sleep) or to the throw.
Catch(error) ==
  LET err == Normalize(error) IN
  /\ timers' = timers \ {attempt}
  /\ lastError' = err
  /\ errs' = errs \cup {[name |-> err.name, status |-> err.status]}
  /\ failures' = failures + 1
  /\ response' = 0
  /\ responseData' = None
  /\ IF RetryAllowed(attempt, maxRetries)
     THEN \E predicate \in PredicateOutcomes(mergedRetryOptions.shouldRetry) :
            LET r == shouldRetry(err, attempt, mergedRetryOptions, predicate)
            IN  /\ predicateCall' =
                     IF predicate = "notCalled" THEN NoCall
                     ELSE [ error |-> err.name, status |-> err.status,
                            retryCount |-> attempt, outcome |-> predicate ]
                /\ CASE r = "true"  ->
                          /\ pc' = "sleeping"
                          /\ waits' = waits + 1
                          /\ \E delay \in RetryDelays(attempt, mergedRetryOptions) :
                               delays' = Append(delays, delay)
                          /\ result' = result
                     [] r = "false" ->
                          Settle(err) /\ UNCHANGED << waits, delays >>
                     [] OTHER       ->
                          Settle(PlainError("Error")) /\ UNCHANGED << waits, delays >>
     ELSE /\ Settle(err)
          /\ predicateCall' = NoCall
          /\ UNCHANGED << waits, delays >>

\* generatePath and the base-URL join, building requestContext
Resolve ==
  /\ pc = "resolve"
  /\ \E pathOk \in BOOLEAN :
       IF pathOk
       THEN /\ requestContext' = [ url    |-> ResolvedUrl,
                                   method |-> options.method,
                                   signal |-> options.signal ]
            /\ pc' = IF config.onRequestMiddleware THEN "reqmw" ELSE "build"
            /\ result' = result
       ELSE /\ Settle(PathParameterError)
            /\ requestContext' = requestContext
  /\ UNCHANGED << config, options, attempt, lastError, response, responseData,
                  timers, controllerAborted, combinedAborted, finalSignal,
                  listeners, callerAborted, calls, waits, reqMwRuns,
                  respMwRuns, errs, failures, reqMwThrown,
                  predicateCall, delays, pairVars, unitVars >>

\* if (onRequestMiddleware) { try { requestContext = await hook(ctx) } ... }
\* The hook's error rethrown as it is, without the wrapper.
RequestHookFailure_Unwrapped(thrown) == PlainError("Error")

\* catch (error) { throw new MiddlewareError('Request middleware failed...',
\*   'request', requestContext.url, requestContext.method, cause) }
RequestHookFailure(thrown) ==
  MiddlewareError("request", requestContext.url, requestContext.method, thrown)

RequestMiddleware ==
  /\ pc = "reqmw"
  /\ reqMwRuns' = reqMwRuns + 1
  /\ \E out \in {"same", "replaced"} \cup Thrown :
       /\ reqMwThrown' = IF out \in Thrown THEN out ELSE ""
       /\ CASE out = "same" ->
                 /\ pc' = "build"
                 /\ UNCHANGED << requestContext, result >>
            [] out = "replaced" ->
                 /\ pc' = "build"
                 /\ requestContext' = [ requestContext EXCEPT
                                          !.url = MiddlewareUrl,
                                          !.method = "POST" ]
                 /\ result' = result
            [] OTHER ->
                 /\ Settle(RequestHookFailure(out))
                 /\ requestContext' = requestContext
  /\ UNCHANGED << config, options, attempt, lastError, response, responseData,
                  timers, controllerAborted, combinedAborted, finalSignal,
                  listeners, callerAborted, calls, waits, respMwRuns,
                  errs, failures,
                  predicateCall, delays, pairVars, unitVars >>

\* query serialisation, body encoding, merging of the retry options
Build ==
  /\ pc = "build"
  /\ \E ok \in BOOLEAN :
       IF ok
       THEN pc' = "loop" /\ result' = result
       ELSE Settle(PlainError("TypeError"))
  /\ attempt' = 0
  /\ UNCHANGED << config, options, requestContext, lastError, response,
                  responseData, timers, controllerAborted, combinedAborted,
                  finalSignal, listeners, callerAborted, calls, waits,
                  reqMwRuns, respMwRuns, errs, failures, reqMwThrown,
                  predicateCall, delays, pairVars, unitVars >>

\* Loop head and the body of the attempt up to the customFetch call.
StartAttempt ==
  /\ pc = "loop"
  /\ LoopCondition(attempt, maxRetries)
  /\ timers' = timers \cup {attempt}
  /\ controllerAborted' = FALSE
  /\ combinedAborted' = FALSE
  /\ IF requestContext.signal
     THEN IF callerAborted
          THEN finalSignal' = "caller" /\ listeners' = listeners
          ELSE finalSignal' = "combined" /\ listeners' = listeners \cup {attempt}
     ELSE finalSignal' = "controller" /\ listeners' = listeners
  /\ calls' = calls + 1
  /\ pc' = "fetching"
  /\ UNCHANGED << config, options, requestContext, attempt, lastError,
                  response, responseData, callerAborted, result, waits,
                  reqMwRuns, respMwRuns, errs, failures, reqMwThrown,
                  predicateCall, delays, pairVars, unitVars >>

\* throw lastError || new Error('Request failed'), after the loop
LoopExit ==
  /\ pc = "loop"
  /\ ~LoopCondition(attempt, maxRetries)
  /\ Settle(IF lastError # None THEN lastError ELSE PlainError("Error"))
  /\ UNCHANGED << config, options, requestContext, attempt, lastError,
                  response, responseData, timers, controllerAborted,
                  combinedAborted, finalSignal, listeners, callerAborted,
                  calls, waits, reqMwRuns, respMwRuns, errs, failures, reqMwThrown,
                  predicateCall, delays, pairVars, unitVars >>

\* customFetch resolves with a response
TransportAnswers ==
  /\ pc = "fetching"
  /\ \E status \in Statuses : response' = status
  /\ pc' = "decoding"
  /\ UNCHANGED << config, options, requestContext, attempt, lastError,
                  responseData, timers, controllerAborted, combinedAborted,
                  finalSignal, listeners, callerAborted, result, calls, waits,
                  reqMwRuns, respMwRuns, errs, failures, reqMwThrown,
                  predicateCall, delays, pairVars, unitVars >>

\* customFetch rejects with a network failure (a TypeError)
TransportFails ==
  /\ pc = "fetching"
  /\ Catch(PlainError("TypeError"))
  /\ UNCHANGED << config, options, requestContext, attempt, controllerAborted,
                  combinedAborted, finalSignal, listeners, callerAborted,
                  calls, reqMwRuns, respMwRuns, reqMwThrown,
                  pairVars, unitVars >>

\* customFetch rejects with an AbortError because its signal is aborted
TransportAborted ==
  /\ pc = "fetching"
  /\ EffectiveAborted
  /\ Catch(PlainError("AbortError"))
  /\ UNCHANGED << config, options, requestContext, attempt, controllerAborted,
                  combinedAborted, finalSignal, listeners, callerAborted,
                  calls, reqMwRuns, respMwRuns, reqMwThrown,
                  pairVars, unitVars >>

\* processResponse and what follows it inside the try block, for a body
\* read that ends as `body` and a schema validation that ends as schemaOk.
processResponse(body, schemaOk) ==
  IF body # "ok"
  THEN Catch(SerializationError(IF body = "aborted" THEN "AbortError"
                                                    ELSE "Error"))
  ELSE IF ~validateStatus(response)
  THEN Catch(HttpError(response, requestContext.url, options.method))
  ELSE IF ~schemaOk
  THEN Catch(SchemaValidationError)
  ELSE /\ IF config.onResponseMiddleware
          THEN /\ pc' = "respmw"
               /\ responseData' = ResponseObj(response, requestContext.url,
                                              options.method)
               /\ result' = result
          ELSE /\ Settle(ResponseObj(response, requestContext.url,
                                     options.method))
               /\ responseData' = None
       /\ response' = 0
       /\ UNCHANGED << timers, lastError, errs, failures, waits,
                       predicateCall, delays, pairVars, unitVars >>

\* the response body is read to its end (well-formed or not)
ProcessResponse ==
  /\ pc = "decoding"
  /\ \E body \in {"ok", "malformed"}, schemaOk \in BOOLEAN :
       processResponse(body, schemaOk)
  /\ UNCHANGED << config, options, requestContext, attempt, controllerAborted,
                  combinedAborted, finalSignal, listeners, callerAborted,
                  calls, reqMwRuns, respMwRuns, reqMwThrown,
                  pairVars, unitVars >>

\* the body read is cut short because the signal is aborted
ProcessResponseAborted ==
  /\ pc = "decoding"
  /\ EffectiveAborted
  /\ processResponse("aborted", TRUE)
  /\ UNCHANGED << config, options, requestContext, attempt, controllerAborted,
                  combinedAborted, finalSignal, listeners, callerAborted,
                  calls, reqMwRuns, respMwRuns, reqMwThrown,
                  pairVars, unitVars >>

\* if (onResponseMiddleware) { try { return await hook(responseData) } ... }
ResponseMiddleware ==
  /\ pc = "respmw"
  /\ respMwRuns' = respMwRuns + 1
  /\ \E out \in {"same"} \cup Thrown :
       IF out = "same"
       THEN /\ Settle(responseData)
            /\ responseData' = None
            /\ UNCHANGED << timers, lastError, errs, failures, waits, response,
                            predicateCall, delays, pairVars, unitVars >>
       ELSE Catch(MiddlewareError("response", requestContext.url,
                                  options.method, out))
  /\ UNCHANGED << config, options, requestContext, attempt, controllerAborted,
                  combinedAborted, finalSignal, listeners, callerAborted,
                  calls, reqMwRuns, reqMwThrown,
                  pairVars, unitVars >>

\* sleep(delay) resolves; continue
SleepDone ==
  /\ pc = "sleeping"
  /\ attempt' = NextAttempt(attempt)
  /\ pc' = "loop"
  /\ UNCHANGED << config, options, requestContext, lastError, response,
                  responseData, timers, controllerAborted, combinedAborted,
                  finalSignal, listeners, callerAborted, result, calls, waits,
                  reqMwRuns, respMwRuns, errs, failures, reqMwThrown,
                  predicateCall, delays, pairVars, unitVars >>

\* setTimeout(() => controller.abort(), timeout) fires for attempt a
TimerFire(a) ==
  /\ a \in timers
  /\ timers' = timers \ {a}
  /\ IF a = attempt
     THEN /\ controllerAborted' = TRUE
          /\ combinedAborted' = (combinedAborted \/ a \in listeners)
     ELSE UNCHANGED << controllerAborted, combinedAborted >>
  /\ UNCHANGED << config, options, pc, requestContext, attempt, lastError,
                  response, responseData, finalSignal, listeners,
                  callerAborted, result, calls, waits, reqMwRuns, respMwRuns,
                  errs, failures, reqMwThrown,
                  predicateCall, delays, pairVars, unitVars >>

\* The caller aborts options.signal; every cleanup listener registered on it
\* runs: clearTimeout(timeoutId); combinedController.abort().
CallerAbort ==
  /\ options.signal
  /\ ~callerAborted
  /\ callerAborted' = TRUE
  /\ timers' = timers \ listeners
  /\ combinedAborted' = (combinedAborted \/ attempt \in listeners)
  /\ UNCHANGED << config, options, pc, requestContext, attempt, lastError,
                  response, responseData, controllerAborted, finalSignal,
                  listeners, result, calls, waits, reqMwRuns, respMwRuns,
                  errs, failures, reqMwThrown,
                  predicateCall, delays, pairVars, unitVars >>

Next ==
  \/ Resolve
  \/ RequestMiddleware
  \/ Build
  \/ StartAttempt
  \/ LoopExit
  \/ TransportAnswers
  \/ TransportFails
  \/ TransportAborted
  \/ ProcessResponse
  \/ ProcessResponseAborted
  \/ ResponseMiddleware
  \/ SleepDone
  \/ \E a \in timers : TimerFire(a)
  \/ CallerAbort

Spec == Init /\ [][Next]_vars

\* A step the runtime takes by itself: the event loop runs a ready
\* continuation (a hook or sleep that finishes, a rejection delivered by a
\* transport or body read whose signal is aborted), or a pending timeout
\* timer fires.  A transport is not obliged to answer.
Progress ==
  \/ Resolve
  \/ RequestMiddleware
  \/ Build
  \/ StartAttempt
  \/ LoopExit
  \/ TransportAborted
  \/ ProcessResponseAborted
  \/ ResponseMiddleware
  \/ SleepDone
  \/ \E a \in timers : TimerFire(a)

Fairness == WF_vars(Progress)

\* Termination does not depend on which failures the policy lists as
\* retryable (a caller's predicate already produces every retry decision), so
\* the fair specification leaves retryStatusCodes and retryNetworkErrors at
\* their defaults.
FairInit ==
  /\ Init
  /\ config.retryOptions.retryStatusCodes = <<>>
  /\ config.retryOptions.retryNetworkErrors = <<>>

FairSpec == FairInit /\ [][Next]_vars /\ Fairness

\* The invocations of clients that differ in their backoff policy and use
\* the default retry eligibility, which retries every failure.
BackoffInit ==
  /\ config \in [ retryOptions         : BackoffRetryOptions,
                  onRequestMiddleware  : BOOLEAN,
                  onResponseMiddleware : BOOLEAN ]
  /\ options \in [ method       : {"GET"},
                   signal       : BOOLEAN,
                   retryOptions : {r \in RequestRetryOptions :
                                     r.shouldRetry = <<>>} ]
  /\ Called
  /\ heap = [r \in {ClientHeaders} \cup Invocations |-> EmptyHeaders]
  /\ inv = [i \in Invocations |-> NotCalled]
  /\ UnitsIdle

BackoffSpec == BackoffInit /\ [][Next]_vars

(***************************************************************************)
(* The steps of call i of the pair: the same fetcher, with its header      *)
(* objects and its locals, and one step per suspension point.              *)
(***************************************************************************)
\* {...defaultHeaders, ...headers}
Overlay(base, over) ==
  [h \in HeaderNames |-> IF over[h] # "" THEN over[h] ELSE base[h]]

\* The client's own header object handed to the context, not a copy.
ContextHeaders_Shared(i) == ClientHeaders

\* new Headers(...): a fresh object for this call's requestContext
ContextHeaders(i) == i

\* Destructuring of options, resolving the URL, building requestContext.
Invoke(i) ==
  /\ inv[i].pc = "idle"
  /\ \E headers \in RequestHeaders, retryOptions \in PairRetryOptions :
       /\ heap' = [heap EXCEPT ![ContextHeaders(i)] =
                                  Overlay(heap[ClientHeaders], headers)]
       /\ inv' = [inv EXCEPT ![i] =
                    [@ EXCEPT !.pc = IF config.onRequestMiddleware
                                     THEN "reqmw" ELSE "build",
                              !.headers = ContextHeaders(i),
                              !.retryOptions = retryOptions]]
  /\ UNCHANGED << fetcherVars, unitVars >>

\* onRequestMiddleware(requestContext): the hook sets a header of the
\* context it was given, returns it untouched, or throws.
Hook(i) ==
  /\ inv[i].pc = "reqmw"
  /\ \E out \in {"sets", "same", "throws"} :
       CASE out = "sets" ->
              /\ heap' = [heap EXCEPT ![inv[i].headers]["authorization"] =
                                        IF i = 1 THEN "token1" ELSE "token2"]
              /\ inv' = [inv EXCEPT ![i].pc = "build"]
         [] out = "same" ->
              /\ inv' = [inv EXCEPT ![i].pc = "build"]
              /\ heap' = heap
         [] OTHER ->
              /\ inv' = [inv EXCEPT ![i].pc = "done",
                                    ![i].result = "MiddlewareError"]
              /\ heap' = heap
  /\ UNCHANGED << fetcherVars, unitVars >>

\* requestInit, the body and its content-type, the merged retry options.
Prepare(i) ==
  /\ inv[i].pc = "build"
  /\ \E jsonBody \in BOOLEAN :
       heap' = IF jsonBody
               THEN [heap EXCEPT ![inv[i].headers]["content-type"] =
                                    "application/json"]
               ELSE heap
  /\ inv' = [inv EXCEPT ![i] =
               [@ EXCEPT !.pc = "loop",
                         !.attempt = 0,
                         !.maxRetries =
                            Spread(Spread(DEFAULT_RETRY_OPTIONS,
                                          config.retryOptions),
                                   inv[i].retryOptions).maxRetries]]
  /\ UNCHANGED << fetcherVars, unitVars >>

\* One pass of the loop head: the timer is armed and customFetch called.
Attempt(i) ==
  /\ inv[i].pc = "loop"
  /\ LoopCondition(inv[i].attempt, inv[i].maxRetries)
  /\ inv' = [inv EXCEPT ![i].pc = "fetching", ![i].timer = TRUE]
  /\ UNCHANGED << fetcherVars, heap, unitVars >>

\* The attempt returns the envelope.
Succeed(i) ==
  /\ inv[i].pc = "fetching"
  /\ inv' = [inv EXCEPT ![i].pc = "done", ![i].result = "envelope"]
  /\ UNCHANGED << fetcherVars, heap, unitVars >>

\* The catch block, under the default policy that retries every failure.
Fail(i) ==
  /\ inv[i].pc = "fetching"
  /\ \E name \in {"HttpError", "TypeError"} :
       inv' = [inv EXCEPT ![i] =
                 IF RetryAllowed(inv[i].attempt, inv[i].maxRetries)
                 THEN [@ EXCEPT !.pc = "sleeping", !.timer = FALSE,
                                !.lastError = name]
                 ELSE [@ EXCEPT !.pc = "done", !.timer = FALSE,
                                !.lastError = name, !.result = name]]
  /\ UNCHANGED << fetcherVars, heap, unitVars >>

\* sleep(delay) resolves; continue
Wake(i) ==
  /\ inv[i].pc = "sleeping"
  /\ inv' = [inv EXCEPT ![i].pc = "loop",
                        ![i].attempt = NextAttempt(inv[i].attempt)]
  /\ UNCHANGED << fetcherVars, heap, unitVars >>

PairNext ==
  \E i \in Invocations :
    \/ Invoke(i)
    \/ Hook(i)
    \/ Prepare(i)
    \/ Attempt(i)
    \/ Succeed(i)
    \/ Fail(i)
    \/ Wake(i)

\* One client with the default retry eligibility and at most one retry, and
\* two calls of its fetcher that interleave freely.
PairInit ==
  /\ config \in [ retryOptions         : {r \in ClientRetryOptions :
                                             /\ r.maxRetries \in {<<0>>, <<1>>}
                                             /\ r.retryStatusCodes = <<>>
                                             /\ r.retryNetworkErrors = <<>>
                                             /\ r.shouldRetry = <<>>},
                  onRequestMiddleware  : BOOLEAN,
                  onResponseMiddleware : {FALSE} ]
  /\ options = [ method |-> "GET", signal |-> FALSE,
                 retryOptions |-> NoRetryOptions ]
  /\ Called
  /\ ClientCreated
  /\ UnitsIdle

PairSpec == PairInit /\ [][PairNext]_vars

(***************************************************************************)
(* The merge of the retry options on its own, over layers that give or     *)
(* omit every field.                                                       *)
(***************************************************************************)
\* Client-level layers: each property absent or present.
MergeClientLayers ==
  [ maxRetries         : {<<>>, <<1>>},
    retryDelay         : {<<>>, <<100>>},
    backoffFactor      : {<<>>, <<3>>},
    retryStatusCodes   : {<<>>, <<{400}>>},
    retryNetworkErrors : {<<>>, <<FALSE>>},
    maxRetryDelay      : {<<>>, <<1000>>},
    shouldRetry        : {<<>>, <<"custom">>} ]

\* Per-request layers: each property absent or present, with values that
\* differ from the client's and from the defaults.
MergeRequestLayers ==
  [ maxRetries         : {<<>>, <<0>>},
    retryDelay         : {<<>>, <<50>>},
    backoffFactor      : {<<>>, <<1>>},
    retryStatusCodes   : {<<>>, <<{500}>>},
    retryNetworkErrors : {<<>>, <<FALSE>>, <<TRUE>>},
    maxRetryDelay      : {<<>>, <<2000>>},
    shouldRetry        : {<<>>, <<"custom2">>} ]

\* const mergedRetryOptions = {...}; const maxRetries = ...
MergeRetryOptions ==
  /\ policy = NoPolicy
  /\ policy' = [f \in DOMAIN mergedRetryOptions |-> <<mergedRetryOptions[f]>>]
  /\ UNCHANGED << fetcherVars, pairVars, rq, rs, stream, client >>

MergeNext == MergeRetryOptions

MergeInit ==
  /\ config \in [ retryOptions         : MergeClientLayers,
                  onRequestMiddleware  : {FALSE},
                  onResponseMiddleware : {FALSE} ]
  /\ options \in [ method       : {"GET"},
                   signal       : {FALSE},
                   retryOptions : MergeRequestLayers ]
  /\ Called
  /\ heap = [r \in {ClientHeaders} \cup Invocations |-> EmptyHeaders]
  /\ inv = [i \in Invocations |-> NotCalled]
  /\ UnitsIdle

MergeSpec == MergeInit /\ [][MergeNext]_vars

(***************************************************************************)
(* processResponse on its own: one response, decoded, status-checked and   *)
(* validated, over every combination of response and options.              *)
(***************************************************************************)
ResponseStatuses == {200, 404, 500}

StatusTexts == {"", "Not Found"}

\* The response's content-type header; Undefined is a missing header.
ContentTypes == {"application/json", "text/plain", Undefined}

\* The body on the wire: JSON text, text that is not JSON, or a stream that
\* fails while it is read.
Bodies == {"json", "notJson", "unreadable"}

ResponseTypes == {Undefined, "text", "blob", "arrayBuffer"}

\* options.validateStatus: absent, or a predicate given by the statuses it
\* accepts.
StatusValidators == {<<>>, <<{200, 404}>>, <<{}>>}

\* options.schema: absent, a schema that accepts the data as it is, one that
\* returns a coerced value, one that reports issues, one whose validate
\* returns a Promise, an object without the '~standard' protocol.
Schemas == {Undefined, "passes", "coerces", "issues", "async", "notStandard"}

\* The client's schemaValidator: createSchemaValidator() or a caller's own,
\* which throws SchemaValidationError(schema, data) for data it rejects and
\* returns the data otherwise.
SchemaValidators == {"default", "custom"}

NoData == [form |-> "none", body |-> "none"]

\* The value a body reader produces from the bytes of the body.
Decoded(form, body) == [form |-> form, body |-> body]

\* Which reader processResponse calls: response.json(), .text(), .blob()
\* or .arrayBuffer().
Reader(responseType, contentType) ==
  IF responseType \in {"text", "blob", "arrayBuffer"} THEN responseType
  ELSE IF contentType = "application/json" THEN "json"
  ELSE IF contentType = "text/plain" THEN "text"
  ELSE "arrayBuffer"

\* No body read ever fails.
ReadFails_Never(reader, body) == FALSE

\* The reader rejects: the stream fails, or JSON.parse rejects the text.
ReadFails(reader, body) ==
  \/ body = "unreadable"
  \/ reader = "json" /\ body # "json"

\* The caller's predicate is ignored.
validateStatusWith_DefaultOnly(option, status) == validateStatus(status)

\* options.validateStatus || ((status) => status >= 200 && status < 300)
validateStatusWith(option, status) ==
  IF option # <<>> THEN status \in option[1] ELSE validateStatus(status)

\* An error thrown by processResponse or by the validator, with the fields
\* its constructor stores.
Failure(name, status, statusText, data, method, url, schema, cause) ==
  [ kind |-> "error", name |-> name, status |-> status,
    statusText |-> statusText, data |-> data, method |-> method,
    url |-> url, schema |-> schema, cause |-> cause ]

\* responseObj
Envelope(status, statusText, data, method, url) ==
  [ kind |-> "response", name |-> "", status |-> status,
    statusText |-> statusText, data |-> data, method |-> method,
    url |-> url, schema |-> Undefined, cause |-> "none" ]

isStandardSchema(schema) == schema # "notStandard"

\* What validate does: returns a value or throws an error.
Returned(value) == [threw |-> "none", schema |-> Undefined, data |-> NoData,
                    value |-> value]

Threw(name, schema, data) == [threw |-> name, schema |-> schema,
                              data |-> data, value |-> NoData]

\* result.issues is not looked at.
validate_IgnoresIssues(schema, data) ==
  IF ~isStandardSchema(schema) THEN Threw("InvalidSchemaError", schema, NoData)
  ELSE IF schema = "async"
         THEN Threw("AsyncSchemaValidationError", schema, NoData)
  ELSE Returned(IF schema = "coerces" THEN Decoded("coerced", data.body)
                ELSE data)

\* createSchemaValidator().validate
validate(schema, data) ==
  IF ~isStandardSchema(schema) THEN Threw("InvalidSchemaError", schema, NoData)
  ELSE IF schema = "async"
         THEN Threw("AsyncSchemaValidationError", schema, NoData)
  ELSE IF schema = "issues" THEN Threw("SchemaValidationError", schema, data)
  ELSE Returned(IF schema = "coerces" THEN Decoded("coerced", data.body)
                ELSE data)

\* A caller's validator, as the test suite writes one.
customValidate(schema, data) ==
  IF schema = "issues" THEN Threw("SchemaValidationError", schema, data)
  ELSE Returned(data)

\* schemaValidator.validate(options.schema, responseObj.data)
schemaValidatorValidate(validator, schema, data) ==
  IF validator = "default" THEN validate(schema, data)
  ELSE customValidate(schema, data)

\* processResponse is called with a response and the request's options.
ResponseReceived ==
  [ pc              : {"decode"},
    status          : ResponseStatuses,
    statusText      : StatusTexts,
    contentType     : ContentTypes,
    body            : Bodies,
    responseType    : ResponseTypes,
    validateStatus  : StatusValidators,
    schema          : Schemas,
    schemaValidator : SchemaValidators,
    method          : {"GET", "POST"},
    url             : {"https://api.example.com/users"},
    data            : {NoData},
    validateArgs    : {<<>>},
    out             : {[kind |-> "none"]} ]

\* try { data = await response.json() / text() / blob() / arrayBuffer() }
\* catch { throw new SerializationError(...) }
DecodeBody ==
  /\ rs.pc = "decode"
  /\ LET reader == Reader(rs.responseType, rs.contentType)
     IN  IF ReadFails(reader, rs.body)
           THEN rs' = [rs EXCEPT !.pc = "done",
                         !.out = Failure("SerializationError", 0, "", NoData,
                                         "", "", Undefined,
                                         IF rs.body = "unreadable"
                                           THEN "TypeError"
                                           ELSE "SyntaxError")]
           ELSE rs' = [rs EXCEPT !.pc = "status",
                         !.data = Decoded(reader, rs.body)]
  /\ UNCHANGED << fetcherVars, pairVars, policy, rq, stream, client >>

\* if (!validateStatus(response.status)) throw new HttpError(...)
CheckStatus ==
  /\ rs.pc = "status"
  /\ IF ~validateStatusWith(rs.validateStatus, rs.status)
       THEN rs' = [rs EXCEPT !.pc = "done",
                     !.out = Failure("HttpError", rs.status, rs.statusText,
                                     rs.data, rs.method, rs.url, Undefined,
                                     "none")]
       ELSE rs' = [rs EXCEPT !.pc = "schema"]
  /\ UNCHANGED << fetcherVars, pairVars, policy, rq, stream, client >>

\* if (options.schema) { try { responseObj.data = validate(...) }
\* catch (error) { throw new SchemaValidationError(..., error) } }
\* return responseObj
ValidateSchema ==
  /\ rs.pc = "schema"
  /\ IF rs.schema = Undefined
       THEN rs' = [rs EXCEPT !.pc = "done",
                     !.out = Envelope(rs.status, rs.statusText, rs.data,
                                      rs.method, rs.url)]
       ELSE LET r == schemaValidatorValidate(rs.schemaValidator, rs.schema,
                                             rs.data)
            IN  rs' = [rs EXCEPT !.pc = "done",
                         !.validateArgs = <<rs.schema, rs.data>>,
                         !.out = IF r.threw # "none"
                                   THEN Failure("SchemaValidationError", 0,
                                                "", rs.data, "", "",
                                                rs.schema, r.threw)
                                   ELSE Envelope(rs.status, rs.statusText,
                                                 r.value, rs.method, rs.url)]
  /\ UNCHANGED << fetcherVars, pairVars, policy, rq, stream, client >>

ResponseNext ==
  \/ DecodeBody
  \/ CheckStatus
  \/ ValidateSchema

ResponseInit ==
  /\ config \in [ retryOptions         : {NoRetryOptions},
                  onRequestMiddleware  : {FALSE},
                  onResponseMiddleware : {FALSE} ]
  /\ options \in [ method       : {"GET"},
                   signal       : {FALSE},
                   retryOptions : {NoRetryOptions} ]
  /\ Called
  /\ heap = [r \in {ClientHeaders} \cup Invocations |-> EmptyHeaders]
  /\ inv = [i \in Invocations |-> NotCalled]
  /\ policy = NoPolicy
  /\ rq = NoRequest
  /\ rs \in ResponseReceived
  /\ stream = NoStream
  /\ client = NoClient

ResponseSpec == ResponseInit /\ [][ResponseNext]_vars

(***************************************************************************)
(* The request as the fetcher builds it, from the URL template to the      *)
(* transport call: generatePath, the request hook, the query params and    *)
(* the body encoding.  A template is kept as its pieces, because the       *)
(* pattern /:([a-zA-Z0-9_]+)/g of generatePath runs over the whole string. *)
(***************************************************************************)
\* A piece of the template's text: literal text, or text that the pattern
\* matches (text is what the template says, name is the capture group).
Lit(text) == [token |-> FALSE, name |-> "", text |-> text]

Tok(name, text) == [token |-> TRUE, name |-> name, text |-> text]

QueryPair(key, value) == [key |-> key, value |-> value]

\* A URL template: the segments of its path and the pairs of its query.
Template(path, query) == [path |-> path, query |-> query]

\* '/users'
T_users == Template(<<Lit("users")>>, <<>>)

\* '/users/:id'
T_user == Template(<<Lit("users"), Tok("id", ":id")>>, <<>>)

\* '/users/:id/posts/:postId'
T_post ==
  Template(<<Lit("users"), Tok("id", ":id"), Lit("posts"),
             Tok("postId", ":postId")>>, <<>>)

\* '/search?at=:time'
T_search == Template(<<Lit("search")>>, <<QueryPair("at", Tok("time", ":time"))>>)

\* '/users/:id?page=1'
T_paged ==
  Template(<<Lit("users"), Tok("id", ":id")>>, <<QueryPair("page", Lit("1"))>>)

\* '/items?page=1&sort=asc'
T_items ==
  Template(<<Lit("items")>>,
           <<QueryPair("page", Lit("1")), QueryPair("sort", Lit("asc"))>>)

ParamNames == {"id", "postId", "time"}

\* One key of the pathParams map: not in the map, or in it with a value.
NotGiven == [given |-> FALSE, value |-> Undefined]

Given(value) == [given |-> TRUE, value |-> value]

\* params[paramName] === undefined
IsMissing(pathParams, name) ==
  ~pathParams[name].given \/ pathParams[name].value = Undefined

\* Object.keys(params)
Keys(pathParams) == {n \in ParamNames : pathParams[n].given}

\* The text of the template in the order the pattern scans it.
Pieces(template) ==
  template.path \o [i \in 1..Len(template.query) |-> template.query[i].value]

\* The replacer: String(params[paramName]) for a match, the text otherwise.
Replaced(piece, pathParams) ==
  IF piece.token THEN pathParams[piece.name].value ELSE piece.text

\* generatePath: the replacer throws at the first match without a value.
generatePath(template, pathParams) ==
  LET pieces  == Pieces(template)
      missing == {i \in 1..Len(pieces) :
                    pieces[i].token /\ IsMissing(pathParams, pieces[i].name)}
  IN  IF missing # {}
        THEN LET first == CHOOSE i \in missing : \A j \in missing : i <= j
             IN  [ threw          |-> TRUE,
                   requiredParams |-> <<pieces[first].name>>,
                   providedParams |-> Keys(pathParams),
                   path           |-> <<>>,
                   search         |-> <<>> ]
        ELSE [ threw          |-> FALSE,
               requiredParams |-> <<>>,
               providedParams |-> {},
               path   |-> [i \in 1..Len(template.path) |->
                             Replaced(template.path[i], pathParams)],
               search |-> [i \in 1..Len(template.query) |->
                             QueryPair(template.query[i].key,
                                       Replaced(template.query[i].value,
                                                pathParams))] ]

\* A value of the params map: a scalar with the text String() gives for it,
\* undefined, null, or an array of those.
Scalar(type, text) == [kind |-> type, text |-> text, items |-> <<>>]

UndefinedValue == [kind |-> "undefined", text |-> "undefined", items |-> <<>>]

NullValue == [kind |-> "null", text |-> "null", items |-> <<>>]

Array(items) == [kind |-> "array", text |-> "", items |-> items]

\* item !== undefined && item !== null
IsNullish(value) == value.kind \in {"undefined", "null"}

\* null is appended like any other value.
EntryPairs_KeepsNull(entry) ==
  IF entry.value.kind = "array"
    THEN [i \in 1..Len(entry.value.items) |->
            QueryPair(entry.key, entry.value.items[i].text)]
  ELSE IF entry.value.kind # "undefined"
    THEN <<QueryPair(entry.key, entry.value.text)>>
  ELSE <<>>

\* The body of the loop of serializeQueryParams for one entry.
EntryPairs(entry) ==
  IF entry.value.kind = "array"
    THEN LET items == SelectSeq(entry.value.items, LAMBDA v : ~IsNullish(v))
         IN  [i \in 1..Len(items) |-> QueryPair(entry.key, items[i].text)]
  ELSE IF ~IsNullish(entry.value)
    THEN <<QueryPair(entry.key, entry.value.text)>>
  ELSE <<>>

\* serializeQueryParams: the pairs of the URLSearchParams, in order; the
\* string is empty exactly when there is no pair.
RECURSIVE serializeQueryParams(_)
serializeQueryParams(entries) ==
  IF entries = <<>> THEN <<>>
  ELSE EntryPairs(Head(entries)) \o serializeQueryParams(Tail(entries))

\* A serialized query: prefix says that the string starts with '?'.
Serialized(prefix, pairs) == [prefix |-> prefix, pairs |-> pairs]

\* A caller's serializer that returns '?' followed by the pairs.
customSerializeParams(entries) == Serialized(TRUE, serializeQueryParams(entries))

\* params: not passed, or an object given by its entries in key order.
NoParams == [given |-> FALSE, entries |-> <<>>]

Params(entries) == [given |-> TRUE, entries |-> entries]

Entry(key, value) == [key |-> key, value |-> value]

QueryValues ==
  { UndefinedValue, NullValue, Scalar("string", "a"), Scalar("number", "0"),
    Array(<<>>), Array(<<Scalar("string", "a"), Scalar("string", "b")>>),
    Array(<<Scalar("string", "a"), NullValue, UndefinedValue>>) }

\* Every params object with at most two keys, in both key orders.
WideParams ==
  { Params(<<>>) }
    \cup { Params(<<Entry(k, v)>>) : k \in {"tags", "x"}, v \in QueryValues }
    \cup { Params(<<Entry(k[1], v), Entry(k[2], w)>>) :
             k \in {<<"tags", "x">>, <<"x", "tags">>},
             v \in QueryValues, w \in QueryValues }

\* The request body: a plain object, an array, an object with toJSON, a
\* string, an instance of some other class, or none.
BodyKinds == {Undefined, "object", "array", "toJSON", "string", "instance"}

\* isObjectLike
isObjectLike(value) == value \in {"object", "array", "toJSON"}

\* A body handed to the transport: how it was encoded, and from what.
NoBody == [encoding |-> "none", of |-> Undefined]

Encoded(encoding, value) == [encoding |-> encoding, of |-> value]

NoContentType == "none"

\* serializeRequestBody
serializeRequestBody(body) ==
  IF body = "string" THEN [body |-> Encoded("raw", body),
                           contentType |-> NoContentType]
  ELSE IF isObjectLike(body)
    THEN [body |-> Encoded("json", body), contentType |-> "application/json"]
  ELSE [body |-> Encoded("raw", body), contentType |-> NoContentType]

Methods == {"GET", "POST", "PUT", "PATCH", "DELETE"}

BodyMethods == {"POST", "PUT", "PATCH"}

BaseUrl == "https://api.example.com"

NoError ==
  [name |-> "none", requiredParams |-> <<>>, providedParams |-> {}]

NoUrlYet == [absolute |-> FALSE, path |-> <<>>, search |-> <<>>]

NotSent ==
  [url |-> NoUrlYet, method |-> "", contentType |-> NoContentType,
   body |-> NoBody]

\* fetcher is called with a template and options, on a client with a
\* configuration.
RequestOf(template, pathParams, baseUrl, hook, params, serializeParams, method, body, contentType, serializeBody) ==
  [ pc              |-> "called",
    template        |-> template,
    pathParams      |-> pathParams,
    baseUrl         |-> baseUrl,
    hook            |-> hook,
    params          |-> params,
    serializeParams |-> serializeParams,
    method          |-> method,
    body            |-> body,
    declared        |-> contentType,
    serializeBody   |-> serializeBody,
    url             |-> NoUrlYet,
    contentType     |-> NoContentType,
    hookRuns        |-> 0,
    fetchCalls      |-> 0,
    error           |-> NoError,
    sent            |-> NotSent ]

AllGiven == [n \in ParamNames |-> Given("7")]

\* Calls that differ in the template and the pathParams map.
PathRequests ==
  { RequestOf(t, pp, b, h, p, Undefined, "GET", Undefined, NoContentType,
              Undefined) :
      t \in {T_users, T_user, T_post, T_search, T_paged},
      pp \in [ParamNames -> {NotGiven, Given(Undefined), Given("7")}],
      b \in {"", BaseUrl},
      h \in {Undefined, "identity", "throws"},
      p \in {NoParams, Params(<<Entry("page", Scalar("number", "2"))>>)} }

\* Calls that differ in the query params and their serializer.
QueryRequests ==
  { RequestOf(t, AllGiven, BaseUrl, Undefined, p, sp, "GET", Undefined,
              NoContentType, Undefined) :
      t \in {T_users, T_items},
      p \in WideParams \cup {NoParams},
      sp \in {Undefined, "custom"} }

\* Calls that differ in the body, the method and the content type.
BodyRequests ==
  { RequestOf(T_users, AllGiven, BaseUrl, h, NoParams, Undefined, m, body,
              ct, sb) :
      h \in {Undefined, "setsContentType"},
      m \in Methods,
      body \in BodyKinds,
      ct \in {NoContentType, "text/plain"},
      sb \in {Undefined, "string", "null"} }

Failed(name) ==
  [rq EXCEPT !.pc = "done",
             !.error = [NoError EXCEPT !.name = name]]

\* let resolvedUrl = generatePath(url, pathParams); if (baseUrl) ...;
\* let requestContext = { url, method, params, headers, body, ... }
GeneratePath ==
  /\ rq.pc = "called"
  /\ LET r == generatePath(rq.template, rq.pathParams)
     IN  IF r.threw
           THEN rq' = [rq EXCEPT !.pc = "done",
                         !.error = [name |-> "PathParameterError",
                                    requiredParams |-> r.requiredParams,
                                    providedParams |-> r.providedParams]]
           ELSE rq' = [rq EXCEPT !.pc = "hook",
                         !.url = [absolute |-> rq.baseUrl # "",
                                  path |-> r.path, search |-> r.search],
                         !.contentType = rq.declared]
  /\ UNCHANGED << fetcherVars, pairVars, policy, rs, stream, client >>

\* if (onRequestMiddleware) { try { requestContext = await ...(requestContext) }
\* catch { throw new MiddlewareError(...) } }
RequestHook ==
  /\ rq.pc = "hook"
  /\ rq' = IF rq.hook = Undefined THEN [rq EXCEPT !.pc = "params"]
           ELSE IF rq.hook = "throws"
             THEN [Failed("MiddlewareError") EXCEPT !.hookRuns = @ + 1]
           ELSE IF rq.hook = "setsContentType"
             THEN [rq EXCEPT !.pc = "params", !.hookRuns = @ + 1,
                             !.contentType = "application/xml"]
           ELSE [rq EXCEPT !.pc = "params", !.hookRuns = @ + 1]
  /\ UNCHANGED << fetcherVars, pairVars, policy, rs, stream, client >>

\* if (requestContext.params) { const urlObj = new URL(requestContext.url);
\* ... if (serializedParams) urlObj.search = queryString; ... }
SerializeParams ==
  /\ rq.pc = "params"
  /\ rq' = IF ~rq.params.given THEN [rq EXCEPT !.pc = "body"]
           ELSE IF ~rq.url.absolute THEN Failed("TypeError")
           ELSE LET serializedParams ==
                      IF rq.serializeParams # Undefined
                        THEN customSerializeParams(rq.params.entries)
                        ELSE Serialized(FALSE,
                               serializeQueryParams(rq.params.entries))
                IN  IF serializedParams.prefix \/ serializedParams.pairs # <<>>
                      THEN [rq EXCEPT !.pc = "body",
                              !.url.search = serializedParams.pairs]
                      ELSE [rq EXCEPT !.pc = "body"]
  /\ UNCHANGED << fetcherVars, pairVars, policy, rs, stream, client >>

\* const requestInit = {...}; if (body !== undefined && POST/PUT/PATCH) {...}
EncodeBody ==
  /\ rq.pc = "body"
  /\ rq' =
       IF rq.body = Undefined \/ rq.method \notin BodyMethods
         THEN [rq EXCEPT !.pc = "fetch",
                 !.sent = [NotSent EXCEPT !.method = rq.method]]
       ELSE IF rq.serializeBody # Undefined
         THEN IF rq.serializeBody = "null"
                THEN [rq EXCEPT !.pc = "fetch",
                        !.sent = [NotSent EXCEPT !.method = rq.method,
                                    !.body = Encoded("empty", rq.body)]]
                ELSE [rq EXCEPT !.pc = "fetch",
                        !.contentType =
                           IF isObjectLike(rq.body) /\ @ = NoContentType
                             THEN "application/json" ELSE @,
                        !.sent = [NotSent EXCEPT !.method = rq.method,
                                    !.body = Encoded("custom", rq.body)]]
       ELSE LET serialized == serializeRequestBody(rq.body)
            IN  [rq EXCEPT !.pc = "fetch",
                   !.contentType =
                      IF serialized.contentType # NoContentType
                        THEN serialized.contentType ELSE @,
                   !.sent = [NotSent EXCEPT !.method = rq.method,
                               !.body = serialized.body]]
  /\ UNCHANGED << fetcherVars, pairVars, policy, rs, stream, client >>

\* response = await customFetch(requestContext.url, {...requestInit, signal})
CallTransport ==
  /\ rq.pc = "fetch"
  /\ rq' = [rq EXCEPT !.pc = "sent", !.fetchCalls = @ + 1,
                      !.sent.url = rq.url,
                      !.sent.contentType = rq.contentType]
  /\ UNCHANGED << fetcherVars, pairVars, policy, rs, stream, client >>

RequestNext ==
  \/ GeneratePath
  \/ RequestHook
  \/ SerializeParams
  \/ EncodeBody
  \/ CallTransport

RequestInit ==
  /\ config \in [ retryOptions         : {NoRetryOptions},
                  onRequestMiddleware  : {FALSE},
                  onResponseMiddleware : {FALSE} ]
  /\ options \in [ method       : {"GET"},
                   signal       : {FALSE},
                   retryOptions : {NoRetryOptions} ]
  /\ Called
  /\ heap = [r \in {ClientHeaders} \cup Invocations |-> EmptyHeaders]
  /\ inv = [i \in Invocations |-> NotCalled]
  /\ policy = NoPolicy
  /\ rs = NoResponse
  /\ rq \in PathRequests \cup QueryRequests \cup BodyRequests
  /\ stream = NoStream
  /\ client = NoClient

RequestSpec == RequestInit /\ [][RequestNext]_vars

(***************************************************************************)
(* createStreamingStream: the ReadableStream whose start() pumps the       *)
(* source reader, and its consumer.  The stream follows the Streams        *)
(* standard: enqueue and close throw once the stream is closed or a close  *)
(* was requested, error is ignored unless the stream is readable, and      *)
(* cancel closes the stream and empties its queue.                         *)
(***************************************************************************)
\* The chunks of a body, each known by its length.
ChunkLengths == {1, 2}

RECURSIVE SeqsUpTo(_, _)
SeqsUpTo(S, n) ==
  IF n = 0 THEN {<<>>}
  ELSE LET shorter == SeqsUpTo(S, n - 1)
       IN  shorter \cup {Append(q, x) : q \in shorter, x \in S}

StreamBodies == SeqsUpTo(ChunkLengths, MaxChunks)

\* The count is not accumulated.
Transferred_PerChunk(transferredBytes, value) == value

\* transferredBytes += value.length
Transferred(transferredBytes, value) == transferredBytes + value

\* ReadableStreamDefaultControllerCanCloseOrEnqueue
CanCloseOrEnqueue(st) == st.state = "readable" /\ ~st.closeRequested

\* finally { reader.releaseLock(); controller.close() }: close throws a
\* TypeError when the stream cannot be closed; a rejection of start() errors
\* the stream only while it is readable.
Finally(st, rejection) ==
  LET released == [st EXCEPT !.pc = "finished", !.locked = FALSE]
  IN  IF ~CanCloseOrEnqueue(st)
        THEN [released EXCEPT !.thrown = "TypeError"]
      ELSE IF st.queue = <<>>
        THEN [released EXCEPT !.closeRequested = TRUE, !.state = "closed",
                              !.thrown = rejection]
      ELSE IF rejection # "none"
        THEN [released EXCEPT !.closeRequested = TRUE, !.state = "errored",
                              !.queue = <<>>, !.thrown = rejection]
      ELSE [released EXCEPT !.closeRequested = TRUE]

\* toStreamableRequest / toStreamableResponse: getReader() locks the source,
\* totalBytes comes from content-length when the header is there.
Instrumented ==
  [ pc              : {"reading"},
    direction       : {"upload", "download"},
    body            : StreamBodies,
    sourceFails     : BOOLEAN,
    totalBytes      : {<<>>, <<4>>},
    source          : {<<>>},
    locked          : {TRUE},
    transferredBytes : {0},
    events          : {<<>>},
    queue           : {<<>>},
    state           : {"readable"},
    closeRequested  : {FALSE},
    cancelled       : {FALSE},
    eventsAtCancel  : {0},
    taken           : {<<>>},
    thrown          : {"none"} ]

\* One turn of the loop of start(): reader.read() resolves with a chunk;
\* the count is updated, onChunk is called, the chunk is enqueued.
PumpChunk ==
  /\ stream.pc = "reading"
  /\ stream.source # <<>>
  /\ LET value == Head(stream.source)
         total == Transferred(stream.transferredBytes, value)
         called == [stream EXCEPT
                      !.source = Tail(@),
                      !.transferredBytes = total,
                      !.events = Append(@, [ chunk |-> value,
                                             totalBytes |-> stream.totalBytes,
                                             transferredBytes |-> total ])]
     IN  stream' = IF CanCloseOrEnqueue(called)
                     THEN [called EXCEPT !.queue = Append(@, value)]
                     ELSE Finally(called, "TypeError")
  /\ UNCHANGED << fetcherVars, pairVars, policy, rq, rs, client >>

\* reader.read() resolves with done, or rejects because the source failed.
PumpEnd ==
  /\ stream.pc = "reading"
  /\ stream.source = <<>>
  /\ stream' = Finally(stream, IF stream.sourceFails THEN "SourceError"
                               ELSE "none")
  /\ UNCHANGED << fetcherVars, pairVars, policy, rq, rs, client >>

\* The consumer reads one chunk from the instrumented stream.
Consume ==
  /\ stream.pc # "none"
  /\ stream.state = "readable"
  /\ stream.queue # <<>>
  /\ stream' = [stream EXCEPT
                  !.taken = Append(@, Head(stream.queue)),
                  !.queue = Tail(@),
                  !.state = IF stream.closeRequested /\ Tail(stream.queue) = <<>>
                              THEN "closed" ELSE @]
  /\ UNCHANGED << fetcherVars, pairVars, policy, rq, rs, client >>

\* The consumer cancels the instrumented stream.  The underlying source
\* object passed to new ReadableStream has no cancel method.
CancelDownstream ==
  /\ stream.pc # "none"
  /\ stream.state = "readable"
  /\ stream' = [stream EXCEPT !.state = "closed", !.queue = <<>>,
                              !.cancelled = TRUE,
                              !.eventsAtCancel = Len(stream.events)]
  /\ UNCHANGED << fetcherVars, pairVars, policy, rq, rs, client >>

StreamNext ==
  \/ PumpChunk
  \/ PumpEnd
  \/ Consume
  \/ CancelDownstream

StreamInit ==
  /\ config \in [ retryOptions         : {NoRetryOptions},
                  onRequestMiddleware  : {FALSE},
                  onResponseMiddleware : {FALSE} ]
  /\ options \in [ method       : {"GET"},
                   signal       : {FALSE},
                   retryOptions : {NoRetryOptions} ]
  /\ Called
  /\ heap = [r \in {ClientHeaders} \cup Invocations |-> EmptyHeaders]
  /\ inv = [i \in Invocations |-> NotCalled]
  /\ policy = NoPolicy
  /\ rq = NoRequest
  /\ rs = NoResponse
  /\ client = NoClient
  /\ \E st \in Instrumented : stream = [st EXCEPT !.source = st.body]

StreamSpec == StreamInit /\ [][StreamNext]_vars

(***************************************************************************)
(* createHttpClient's validation of baseUrl, and the join of a request     *)
(* template against the base it returns.  A base URL is kept by its form:  *)
(* what startsWith('/') and new URL() say about it, and whether it ends    *)
(* with a slash.                                                           *)
(***************************************************************************)
BaseOf(form, trailingSlash) == [form |-> form, trailingSlash |-> trailingSlash]

\* undefined; ''; '/'; '/api' and '/api/'; 'https://api.example.com' with and
\* without the slash; 'mailto:dev@example.com' (new URL accepts it, and it
\* cannot be a base); 'not-a-valid-url' and 'not-a-valid-url/'.
BaseUrls ==
  { BaseOf("undefined", FALSE), BaseOf("empty", FALSE), BaseOf("slash", TRUE),
    BaseOf("path", FALSE), BaseOf("path", TRUE),
    BaseOf("absolute", FALSE), BaseOf("absolute", TRUE),
    BaseOf("opaque", FALSE),
    BaseOf("invalid", FALSE), BaseOf("invalid", TRUE) }

\* Request templates: '/users', 'users', 'https://other.example.com/users'.
TemplateForms == {"rooted", "bare", "absolute"}

\* baseUrl.startsWith('/')
StartsWithSlash(base) == base.form \in {"slash", "path"}

\* new URL(baseUrl) does not throw
ParsesAsUrl(base) == base.form \in {"absolute", "opaque"}

\* new URL(input, base) does not throw: the base must parse on its own and
\* must not have an opaque path.
CanBeBase(base) == base.form = "absolute"

\* The trailing slash of a path removed; '/' becomes ''.
WithoutTrailingSlash(base) ==
  IF base.form = "slash" THEN BaseOf("empty", FALSE)
  ELSE BaseOf(base.form, FALSE)

\* validateAndNormalizeBaseUrl
validateAndNormalizeBaseUrl(base, hasLocation) ==
  IF base.form \in {"undefined", "empty"}
    THEN [threw |-> FALSE,
          baseUrl |-> IF hasLocation THEN BaseOf("absolute", FALSE)
                      ELSE BaseOf("empty", FALSE)]
  ELSE IF StartsWithSlash(base)
    THEN [threw |-> FALSE,
          baseUrl |-> IF hasLocation THEN BaseOf("absolute", FALSE)
                      ELSE WithoutTrailingSlash(base)]
  ELSE IF ~ParsesAsUrl(base)
    THEN [threw |-> TRUE, baseUrl |-> base]
  ELSE [threw |-> FALSE, baseUrl |-> WithoutTrailingSlash(base)]

\* createHttpClient is called with a config, in a browser or not, and a
\* request is made later with a template.
ClientCalls ==
  [ pc          : {"creating"},
    baseUrl     : BaseUrls,
    hasLocation : BOOLEAN,
    template    : TemplateForms,
    normalized  : {BaseOf("undefined", FALSE)},
    error       : {"none"},
    resolved    : {"none"} ]

\* createHttpClient: baseUrl: validateAndNormalizeBaseUrl(config.baseUrl)
CreateHttpClient ==
  /\ client.pc = "creating"
  /\ LET r == validateAndNormalizeBaseUrl(client.baseUrl, client.hasLocation)
     IN  client' = IF r.threw
                     THEN [client EXCEPT !.pc = "failed",
                                         !.error = "InvalidBaseUrlError",
                                         !.normalized = r.baseUrl]
                     ELSE [client EXCEPT !.pc = "created",
                                         !.normalized = r.baseUrl]
  /\ UNCHANGED << fetcherVars, pairVars, policy, rq, rs, stream >>

\* if (baseUrl) { resolvedUrl = new URL(resolvedUrl, baseUrl).toString() }
ResolveAgainstBase ==
  /\ client.pc = "created"
  /\ client' =
       IF client.normalized.form = "empty"
         THEN [client EXCEPT !.pc = "requested",
                 !.resolved = IF client.template = "absolute" THEN "absolute"
                              ELSE "relative"]
       ELSE IF CanBeBase(client.normalized)
         THEN [client EXCEPT !.pc = "requested", !.resolved = "absolute"]
       ELSE [client EXCEPT !.pc = "requested", !.error = "TypeError"]
  /\ UNCHANGED << fetcherVars, pairVars, policy, rq, rs, stream >>

ClientNext ==
  \/ CreateHttpClient
  \/ ResolveAgainstBase

ClientInit ==
  /\ config \in [ retryOptions         : {NoRetryOptions},
                  onRequestMiddleware  : {FALSE},
                  onResponseMiddleware : {FALSE} ]
  /\ options \in [ method       : {"GET"},
                   signal       : {FALSE},
                   retryOptions : {NoRetryOptions} ]
  /\ Called
  /\ heap = [r \in {ClientHeaders} \cup Invocations |-> EmptyHeaders]
  /\ inv = [i \in Invocations |-> NotCalled]
  /\ policy = NoPolicy
  /\ rq = NoRequest
  /\ rs = NoResponse
  /\ stream = NoStream
  /\ client \in ClientCalls

ClientSpec == ClientInit /\ [][ClientNext]_vars

TypeOK ==
  /\ pc \in {"resolve", "reqmw", "build", "loop", "fetching", "decoding",
             "respmw", "sleeping", "done"}
  /\ timers \subseteq {attempt}
  /\ result.kind \in {"none", "envelope", "error"}
  /\ (pc = "done") <=> (result # None)

(***************************************************************************)
(* Claims.                                                                 *)
(***************************************************************************)
Settled == pc = "done"

\* The caller supplied a shouldRetry predicate (at either layer, and it
\* survived the merge).
PredicateSupplied == mergedRetryOptions.shouldRetry = "custom"

\* Neither the client configuration nor the request names shouldRetry.
NoLayerNamesShouldRetry ==
  /\ config.retryOptions.shouldRetry = <<>>
  /\ options.retryOptions.shouldRetry = <<>>

HttpTag(status) == [name |-> "HttpError", status |-> status]

\* Every attempt so far ended in the HttpError of status s.
AllAttemptsAnswered(s) ==
  /\ calls >= 1
  /\ failures = calls
  /\ errs = {HttpTag(s)}

\* A failure the policy lists as retryable: a listed status, or a network
\* failure while retryNetworkErrors is enabled.
RetryableTag(e) ==
  \/ e.name = "HttpError" /\ e.status \in mergedRetryOptions.retryStatusCodes
  \/ e.name = "TypeError" /\ mergedRetryOptions.retryNetworkErrors

\* C1: with merged maxRetries = n >= 0, an invocation never makes more than
\* n + 1 transport calls, whatever the transport, the hooks and the
\* shouldRetry predicate do.
C1_CallsBounded ==
  maxRetries >= 0 => calls <= maxRetries + 1

C1_Witness ==
  /\ Settled
  /\ maxRetries = MaxRetriesBound
  /\ calls = maxRetries + 1
  /\ PredicateSupplied

\* C2 as stated: for every retry policy with maxRetries = n >= 0 and every
\* status listed in retryStatusCodes, a transport that answers every call
\* with that status leads to exactly n + 1 transport calls and a final
\* HttpError carrying the status.
C2_Original ==
  \A s \in mergedRetryOptions.retryStatusCodes :
    (Settled /\ maxRetries >= 0 /\ AllAttemptsAnswered(s))
      => /\ calls = maxRetries + 1
         /\ result.name = "HttpError"
         /\ result.status = s

\* C2 amended: the same, for retry policies in which the caller supplied no
\* shouldRetry predicate.
C2_ExhaustsRetries ==
  \A s \in mergedRetryOptions.retryStatusCodes :
    (Settled /\ maxRetries >= 0 /\ ~PredicateSupplied /\ AllAttemptsAnswered(s))
      => /\ calls = maxRetries + 1
         /\ result.kind = "error"
         /\ result.name = "HttpError"
         /\ result.status = s

C2_Witness ==
  /\ Settled
  /\ maxRetries >= 1
  /\ mergedRetryOptions.shouldRetry = Undefined
  /\ 400 \in mergedRetryOptions.retryStatusCodes
  /\ AllAttemptsAnswered(400)
  /\ calls = maxRetries + 1
  /\ result.name = "HttpError"

\* C3 as stated: k <= maxRetries consecutive retryable failures followed by
\* a success resolve with the envelope of the success after k + 1 transport
\* calls, and none of the k errors reaches the caller.  Hence an invocation
\* all of whose attempts failed retryably rejects only after maxRetries + 1
\* calls (a success on the next call would otherwise be missed), and an
\* invocation that resolves has made one call more than it saw failures.
C3_Original ==
  (Settled /\ maxRetries >= 0 /\ \A e \in errs : RetryableTag(e))
    => /\ (result.kind = "error" /\ calls >= 1 /\ failures = calls)
            => calls = maxRetries + 1
       /\ result.kind = "envelope"
            => (calls = failures + 1 /\ validateStatus(result.status))

\* C3 amended: the same, when the caller supplied no shouldRetry predicate.
C3_RetriesThenSuccess ==
  (Settled /\ maxRetries >= 0 /\ ~PredicateSupplied
     /\ \A e \in errs : RetryableTag(e))
    => /\ (result.kind = "error" /\ calls >= 1 /\ failures = calls)
            => calls = maxRetries + 1
       /\ result.kind = "envelope"
            => (calls = failures + 1 /\ validateStatus(result.status))

C3_Witness ==
  /\ Settled
  /\ mergedRetryOptions.shouldRetry = Undefined
  /\ result.kind = "envelope"
  /\ failures = 2
  /\ errs = {[name |-> "TypeError", status |-> 0], HttpTag(400)}
  /\ \A e \in errs : RetryableTag(e)
  /\ calls = 3

\* C4: when neither the client configuration nor the request supplies
\* shouldRetry, a response whose status fails validation and is not listed
\* in retryStatusCodes is not retried: one transport call, no backoff wait,
\* and the HttpError reaches the caller.
C4_UnlistedStatusNotRetried ==
  ( /\ NoLayerNamesShouldRetry
    /\ errs # {}
    /\ \A e \in errs : /\ e.name = "HttpError"
                        /\ e.status \notin mergedRetryOptions.retryStatusCodes )
    => /\ calls = 1
       /\ waits = 0
       /\ Settled
       /\ result.name = "HttpError"

\* C5: a response hook that throws ends the invocation with a
\* MiddlewareError tagged 'response'; no backoff wait and no further
\* transport call follows, and the hook has run exactly once.
C5_ResponseHookNotRetried ==
  lastError.name = "MiddlewareError"
    => /\ Settled
       /\ result.name = "MiddlewareError"
       /\ result.phase = "response"
       /\ respMwRuns = 1
       /\ calls = failures

\* C6 as stated: a request hook that throws makes the invocation reject with
\* a MiddlewareError tagged 'request' that carries the in-flight url and
\* method and the original cause; no transport call and no backoff wait
\* happens.
C6_Original ==
  reqMwThrown # ""
    => /\ Settled
       /\ result.kind = "error"
       /\ result.name = "MiddlewareError"
       /\ result.phase = "request"
       /\ result.url = ResolvedUrl
       /\ result.method = options.method
       /\ result.cause = reqMwThrown
       /\ calls = 0
       /\ waits = 0

\* C6 amended: the same, with the cause carried when the hook threw an Error
\* instance and left undefined when it threw any other value.
C6_RequestHookFailure ==
  reqMwThrown # ""
    => /\ Settled
       /\ result.kind = "error"
       /\ result.name = "MiddlewareError"
       /\ result.phase = "request"
       /\ result.url = ResolvedUrl
       /\ result.method = options.method
       /\ result.cause = (IF reqMwThrown = "Error" THEN "Error" ELSE Undefined)
       /\ reqMwRuns = 1
       /\ calls = 0
       /\ waits = 0

C6_Witness ==
  /\ Settled
  /\ reqMwThrown = "Error"
  /\ result.name = "MiddlewareError"
  /\ result.cause = "Error"
  /\ maxRetries >= 1

\* C7: an attempt that starts while the caller's signal is already aborted
\* makes no transport call; the invocation fails at once.
C7_AbortedSignalNoCall ==
  [][ (pc = "loop" /\ requestContext.signal /\ callerAborted /\ pc' # pc)
        => (calls' = calls /\ pc' = "done" /\ result'.kind = "error") ]_vars

\* C8: an invocation rejects with TimeoutError only if the timeout timer of
\* the attempt that failed had fired; an abort of the caller's own signal is
\* not turned into a TimeoutError.
C8_TimeoutOnlyFromTimer ==
  (Settled /\ result.name = "TimeoutError") => controllerAborted

\* C9: every invocation eventually settles, with a complete envelope or with
\* an error, and once settled its outcome never changes.
C9_SettlesExactlyOnce ==
  /\ <>Settled
  /\ [](Settled => \/ /\ result.kind = "envelope"
                      /\ validateStatus(result.status)
                      /\ result.url # NoUrl
                      /\ result.method # ""
                   \/ /\ result.kind = "error"
                      /\ result.name # "")
  /\ [][result # None => result' = result]_vars

C9_Witness ==
  /\ Settled
  /\ result.name = "TimeoutError"
  /\ controllerAborted
  /\ maxRetries >= 1
  /\ calls = maxRetries + 1

\* C10: once an invocation has resolved or rejected, none of its timeout
\* timers is still pending.
C10_TimersCleared ==
  Settled => timers = {}

\* C11: the abort listeners an invocation holds on the caller's signal do
\* not grow with the number of attempts, and none is left once the
\* invocation has settled.
C11_ListenersReleased ==
  /\ Cardinality(listeners) <= 1
  /\ Settled => listeners = {}

\* Failures that are neither an HTTP-status failure nor a network failure.
OtherFailures == {"SchemaValidationError", "SerializationError", "TimeoutError"}

\* C12: when neither the client configuration nor the request supplies
\* shouldRetry, a schema-validation failure, a decoding failure or a timeout
\* is not retried: one transport call, no backoff wait, and that error
\* reaches the caller.
C12_OtherFailuresNotRetried ==
  ( /\ NoLayerNamesShouldRetry
    /\ errs # {}
    /\ \A e \in errs : e.name \in OtherFailures )
    => /\ calls = 1
       /\ waits = 0
       /\ Settled
       /\ result.name = lastError.name

\* C13: when neither the client configuration nor the request supplies
\* shouldRetry and retryNetworkErrors is false, a network failure of the
\* transport is not retried: one transport call, no backoff wait, and the
\* failure reaches the caller.
C13_NetworkFailureNotRetried ==
  ( /\ NoLayerNamesShouldRetry
    /\ ~mergedRetryOptions.retryNetworkErrors
    /\ errs = {[name |-> "TypeError", status |-> 0]} )
    => /\ calls = 1
       /\ waits = 0
       /\ Settled
       /\ result.name = "TypeError"

\* C14: with a caller-supplied shouldRetry, a failed attempt i < maxRetries
\* calls the predicate with the attempt's error and the index i, and the
\* pipeline goes on to a backoff wait exactly when the predicate returned
\* true; otherwise the invocation rejects.  Error kind, retryStatusCodes and
\* retryNetworkErrors play no part.
C14_PredicateAloneDecides ==
  [][ (PredicateSupplied /\ failures' = failures + 1 /\ attempt < maxRetries)
        => /\ predicateCall'.error = lastError'.name
           /\ predicateCall'.status = lastError'.status
           /\ predicateCall'.retryCount = attempt
           /\ (pc' = "sleeping") <=> (predicateCall'.outcome = "true")
           /\ (pc' = "sleeping") => (waits' = waits + 1 /\ result' = None)
           /\ (pc' # "sleeping") => (pc' = "done" /\ waits' = waits
                                      /\ result'.kind = "error") ]_vars

C14_Witness ==
  /\ PredicateSupplied
  /\ pc = "sleeping"
  /\ lastError.name = "SchemaValidationError"
  /\ predicateCall.error = "SchemaValidationError"
  /\ predicateCall.retryCount = 1
  /\ predicateCall.outcome = "true"
  /\ ~mergedRetryOptions.retryNetworkErrors

\* C15: the k-th backoff wait of an invocation follows the failed attempt
\* i = k - 1 and lasts min(retryDelay * backoffFactor^i, maxRetryDelay); no
\* wait exceeds maxRetryDelay and the first is min(retryDelay, maxRetryDelay).
C15_BackoffWait ==
  /\ Len(delays) = waits
  /\ \A k \in DOMAIN delays :
       /\ delays[k] = Min(mergedRetryOptions.retryDelay
                            * Pow(mergedRetryOptions.backoffFactor, k - 1),
                          mergedRetryOptions.maxRetryDelay)
       /\ delays[k] <= mergedRetryOptions.maxRetryDelay
  /\ delays # << >>
       => delays[1] = Min(mergedRetryOptions.retryDelay,
                          mergedRetryOptions.maxRetryDelay)

C15_Witness ==
  /\ Settled
  /\ mergedRetryOptions.retryDelay = 3
  /\ mergedRetryOptions.backoffFactor = 2
  /\ Len(delays) >= 2
  /\ delays[1] = 3
  /\ delays[2] = 6

\* The waits never decrease, and once a wait equals the cap every later wait
\* does.
NonDecreasingUntilCap ==
  \A i, j \in DOMAIN delays :
    i <= j => /\ delays[i] <= delays[j]
              /\ delays[i] = mergedRetryOptions.maxRetryDelay
                   => delays[j] = mergedRetryOptions.maxRetryDelay

C17_WaitHasJitter ==
  pc = "sleeping"
    => Cardinality(RetryDelays(attempt, mergedRetryOptions)) > 1

\* C18: while the transport call of an attempt is in flight, the signal it
\* was given is aborted exactly when the caller's signal is aborted or the
\* attempt's timeout timer has fired, with or without a caller signal.
C18_EffectiveSignal ==
  pc = "fetching"
    => (EffectiveAborted <=> \/ requestContext.signal /\ callerAborted
                             \/ controllerAborted)

C18_Witness ==
  /\ pc = "fetching"
  /\ finalSignal = "combined"
  /\ callerAborted
  /\ ~controllerAborted
  /\ EffectiveAborted
  /\ attempt = 1

\* C19: attempts are sequential.  At most one attempt is open at a time; a
\* transport call starts only when every earlier attempt has failed and has
\* been followed by one completed backoff wait; and no wait follows the
\* final attempt, so a settled invocation has waited once less than it
\* called.
C19_Sequential ==
  /\ [](waits <= failures /\ failures <= calls /\ calls <= failures + 1)
  /\ [][calls' = calls + 1
          => (pc = "loop" /\ failures = calls /\ waits = calls)]_vars
  /\ [](Settled => waits = (IF calls = 0 THEN 0 ELSE calls - 1))

C19_Witness ==
  /\ Settled
  /\ result.kind = "envelope"
  /\ finalSignal = "controller"
  /\ calls = 3
  /\ waits = 2
  /\ failures = 2

\* What call i can read: its locals and the headers of its context.
View(i) ==
  [ locals  |-> inv[i],
    headers |-> IF inv[i].headers = NoRef THEN EmptyHeaders
                ELSE heap[inv[i].headers] ]

\* C20: under every interleaving of two calls on one client, no step changes
\* the client's configuration (default headers, retry options), and a step
\* that changes what one call can read (its context's headers, attempt
\* index, timer, last error) changes nothing the other call can read.
C20_Independent ==
  [][ /\ heap'[ClientHeaders] = heap[ClientHeaders]
      /\ config' = config
      /\ \A i, j \in Invocations :
           (i # j /\ View(i)' # View(i)) => View(j)' = View(j) ]_vars

C20_Witness ==
  /\ inv[1].pc = "fetching"
  /\ inv[2].pc = "sleeping"
  /\ inv[1].attempt = 0
  /\ inv[2].attempt = 0
  /\ inv[2].lastError = "TypeError"
  /\ heap[1]["authorization"] = "token1"
  /\ heap[2]["authorization"] = "token2"
  /\ heap[1]["content-type"] = "application/json"
  /\ heap[2]["content-type"] = ""
  /\ heap[ClientHeaders]["accept"] = "application/json"

\* What the claim gives for one field: the per-request value when given,
\* else the client-level value when given, else the stated default.
LayeredValue(requestLayer, clientLayer, default) ==
  IF requestLayer # <<>> THEN requestLayer[1]
  ELSE IF clientLayer # <<>> THEN clientLayer[1]
  ELSE default

\* C21: every field of the effective retry policy is the per-request value
\* when given, else the client-level value when given, else the default
\* (maxRetries 3, retryDelay 300, backoffFactor 2, maxRetryDelay 30000,
\* retryNetworkErrors true).
C21_MergePrecedence ==
  policy # NoPolicy =>
    LET r == options.retryOptions
        c == config.retryOptions
    IN  /\ policy.maxRetries[1] = LayeredValue(r.maxRetries, c.maxRetries, 3)
        /\ policy.retryDelay[1] = LayeredValue(r.retryDelay, c.retryDelay, 300)
        /\ policy.backoffFactor[1] =
             LayeredValue(r.backoffFactor, c.backoffFactor, 2)
        /\ policy.maxRetryDelay[1] =
             LayeredValue(r.maxRetryDelay, c.maxRetryDelay, 30000)
        /\ policy.retryNetworkErrors[1] =
             LayeredValue(r.retryNetworkErrors, c.retryNetworkErrors, TRUE)
        /\ policy.retryStatusCodes[1] =
             LayeredValue(r.retryStatusCodes, c.retryStatusCodes,
                          {429, 500, 502, 503, 504})
        /\ policy.shouldRetry[1] =
             LayeredValue(r.shouldRetry, c.shouldRetry, "default")

C21_Witness ==
  /\ policy # NoPolicy
  /\ config.retryOptions.maxRetries = <<1>>
  /\ options.retryOptions.maxRetries = <<0>>
  /\ policy.maxRetries = <<0>>
  /\ config.retryOptions.retryDelay = <<100>>
  /\ options.retryOptions.retryDelay = <<>>
  /\ policy.retryDelay = <<100>>
  /\ config.retryOptions.backoffFactor = <<>>
  /\ options.retryOptions.backoffFactor = <<>>
  /\ policy.backoffFactor = <<2>>

\* The error kinds of the taxonomy; a network failure of the transport is a
\* NetworkError or the TypeError that fetch rejects with.
Taxonomy ==
  { "PathParameterError", "HttpError", "NetworkError", "TypeError",
    "TimeoutError", "SerializationError", "SchemaValidationError",
    "AsyncSchemaValidationError", "InvalidSchemaError", "MiddlewareError" }

\* C22: every rejection is of a kind of the taxonomy; a TypeError counts as
\* a transport failure only if the transport was called.
C22_ClosedTaxonomy ==
  (Settled /\ result.kind = "error")
    => /\ result.name \in Taxonomy
       /\ result.name = "TypeError" => calls >= 1

\* The active status validator as the documentation states it.
StatusPasses ==
  IF rs.validateStatus # <<>> THEN rs.status \in rs.validateStatus[1]
  ELSE rs.status >= 200 /\ rs.status < 300

\* The decoded body of the response being processed.
DecodedBody == Decoded(Reader(rs.responseType, rs.contentType), rs.body)

BodyDecodes == ~ReadFails(Reader(rs.responseType, rs.contentType), rs.body)

Processed == rs.pc = "done"

IsHttpErrorOfResponse ==
  /\ rs.out.kind = "error"
  /\ rs.out.name = "HttpError"
  /\ rs.out.status = rs.status
  /\ rs.out.statusText = rs.statusText
  /\ rs.out.data = DecodedBody
  /\ rs.out.method = rs.method
  /\ rs.out.url = rs.url

\* C23 as stated: a response whose status fails the active status validator
\* makes the attempt fail with an HttpError carrying status, statusText,
\* decoded data, method and url, and a passing status never gives HttpError.
C23_Original ==
  Processed =>
    /\ ~StatusPasses => IsHttpErrorOfResponse
    /\ StatusPasses => rs.out.name # "HttpError"

\* C23: a response whose body decodes and whose status fails the active
\* status validator makes the attempt fail with an HttpError carrying the
\* response's status, statusText, decoded data, method and url, and no
\* envelope; a response whose status passes never produces an HttpError.
C23_HttpErrorOnFailingStatus ==
  Processed =>
    /\ (BodyDecodes /\ ~StatusPasses) => IsHttpErrorOfResponse
    /\ StatusPasses => rs.out.name # "HttpError"

C23_Witness ==
  /\ Processed
  /\ rs.validateStatus = <<{200, 404}>>
  /\ rs.status = 500
  /\ rs.statusText = "Not Found"
  /\ rs.contentType = "application/json"
  /\ rs.body = "json"
  /\ rs.out.name = "HttpError"
  /\ rs.out.data = Decoded("json", "json")

\* validate was called and reported issues (the default validator through
\* result.issues, a caller's validator by throwing).
IssuesReported ==
  /\ rs.validateArgs # <<>>
  /\ rs.validateArgs[1] = "issues"

C25_SchemaErrorKinds ==
  (Processed /\ rs.validateArgs # <<>> /\ rs.schemaValidator = "default") =>
    /\ rs.schema = "async" =>
         (rs.out.name = "AsyncSchemaValidationError"
            /\ rs.out.schema = rs.schema)
    /\ rs.schema = "notStandard" =>
         (rs.out.name = "InvalidSchemaError" /\ rs.out.schema = rs.schema)

\* The names the template's path asks for that the pathParams map does not
\* supply.
MissingPathTokens ==
  { rq.template.path[i].name : i \in
      { j \in 1..Len(rq.template.path) :
          /\ rq.template.path[j].token
          /\ IsMissing(rq.pathParams, rq.template.path[j].name) } }

Named == {rq.error.requiredParams[i] : i \in 1..Len(rq.error.requiredParams)}

\* C26: if one or more tokens of the template have no matching key (a key
\* with value undefined counts as missing), the invocation fails with a
\* PathParameterError whose missing names are exactly all missing tokens,
\* and neither the request middleware nor the transport runs.
C26_AllMissingNamed ==
  (rq.pc \notin {"none", "called"} /\ MissingPathTokens # {}) =>
    /\ rq.error.name = "PathParameterError"
    /\ Named = MissingPathTokens
    /\ rq.hookRuns = 0
    /\ rq.fetchCalls = 0

\* The query string of the template as written.
TemplateQuery ==
  [i \in 1..Len(rq.template.query) |->
     QueryPair(rq.template.query[i].key, rq.template.query[i].value.text)]

PathTokenNames ==
  { rq.template.path[i].name : i \in
      { j \in 1..Len(rq.template.path) : rq.template.path[j].token } }

\* C27: interpolation is applied only to the path portion: a ':name' inside
\* the template's query string is neither substituted nor reported missing,
\* and with no query params the template's query reaches the transport
\* verbatim.
C27_QueryVerbatim ==
  /\ rq.pc \notin {"none", "called"} /\ rq.error.name = "PathParameterError"
       => Named \subseteq PathTokenNames
  /\ (rq.pc = "sent" /\ ~rq.params.given /\ rq.template.query # <<>>)
       => rq.sent.url.search = TemplateQuery

InSeq(x, seq) == \E i \in 1..Len(seq) : seq[i] = x

\* C28: when the template has a query string and query params are supplied,
\* every pair of the template's query is still in the URL given to the
\* transport, together with the pairs of the supplied params.
C28_QueryMerged ==
  (rq.pc = "sent" /\ rq.params.given /\ rq.template.query # <<>>) =>
    /\ \A i \in 1..Len(TemplateQuery) :
         InSeq(TemplateQuery[i], rq.sent.url.search)
    /\ LET supplied == serializeQueryParams(rq.params.entries)
       IN  \A i \in 1..Len(supplied) : InSeq(supplied[i], rq.sent.url.search)

\* The places of a params map that hold a value to emit: <<i, 0>> for a
\* scalar entry, <<i, j>> for the j-th element of an array entry.
Positions(entries) ==
  { <<i, 0>> : i \in { k \in 1..Len(entries) :
                         /\ entries[k].value.kind \notin
                              {"array", "undefined", "null"} } }
    \cup
  UNION { { <<i, j>> : j \in { m \in 1..Len(entries[i].value.items) :
                                 entries[i].value.items[m].kind \notin
                                   {"undefined", "null"} } } :
          i \in { k \in 1..Len(entries) : entries[k].value.kind = "array" } }

PairAt(entries, pos) ==
  QueryPair(entries[pos[1]].key,
            IF pos[2] = 0 THEN entries[pos[1]].value.text
            ELSE entries[pos[1]].value.items[pos[2]].text)

Occurrences(seq, x) == Cardinality({i \in 1..Len(seq) : seq[i] = x})

\* seq holds one pair per position of entries, and nothing else.
ExactlyThePairs(seq, entries) ==
  /\ Len(seq) = Cardinality(Positions(entries))
  /\ \A pos \in Positions(entries) :
       Occurrences(seq, PairAt(entries, pos)) =
         Cardinality({q \in Positions(entries) :
                        PairAt(entries, q) = PairAt(entries, pos)})

Reversed(seq) == [i \in 1..Len(seq) |-> seq[Len(seq) + 1 - i]]

DefaultSerialized ==
  /\ rq.pc \in {"body", "fetch", "sent"}
  /\ rq.params.given
  /\ rq.serializeParams = Undefined

\* C29: default query serialization emits exactly one pair per non-null
\* scalar and per non-null array element, nothing for undefined, null or
\* empty arrays; the emitted pairs do not depend on the key order; when no
\* pair remains nothing is put into the URL (a template without a query of
\* its own gets no query string).
C29_DefaultQuerySerialization ==
  DefaultSerialized =>
    /\ Positions(rq.params.entries) # {}
         => ExactlyThePairs(rq.url.search, rq.params.entries)
    /\ Positions(rq.params.entries) = {} => rq.url.search = TemplateQuery
    /\ ExactlyThePairs(serializeQueryParams(Reversed(rq.params.entries)),
                       rq.params.entries)
    /\ rq.pc = "sent" => rq.sent.url = rq.url

C29_Witness ==
  /\ rq.pc = "sent"
  /\ rq.serializeParams = Undefined
  /\ rq.template = T_users
  /\ rq.params =
       Params(<<Entry("x", UndefinedValue),
                Entry("tags", Array(<<Scalar("string", "a"), NullValue,
                                      UndefinedValue>>))>>)
  /\ rq.sent.url.search = <<QueryPair("tags", "a")>>

\* The content type the headers declare before the body is encoded.
DeclaredContentType ==
  IF rq.hook = "setsContentType" THEN "application/xml" ELSE rq.declared

\* C30: with no custom body serializer, a plain structured body on
\* POST/PUT/PATCH is sent as JSON with content-type application/json,
\* unless the headers already declare a content type, which then reaches
\* the transport unchanged.
C30_DeclaredContentTypeKept ==
  ( /\ rq.pc = "sent"
    /\ rq.serializeBody = Undefined
    /\ isObjectLike(rq.body)
    /\ rq.method \in BodyMethods )
  => /\ rq.sent.body = Encoded("json", rq.body)
     /\ rq.sent.contentType =
          (IF DeclaredContentType # NoContentType THEN DeclaredContentType
           ELSE "application/json")

\* C31: the context returned by the request hook replaces the original for
\* the rest of the pipeline: the method and url reported in the envelope,
\* in HttpError and in the response-phase MiddlewareError are those of the
\* returned context.
C31_ReturnedContextReported ==
  ( /\ Settled
    /\ \/ result.kind = "envelope"
       \/ result.name = "HttpError"
       \/ result.name = "MiddlewareError" /\ result.phase = "response" )
  => /\ result.url = requestContext.url
     /\ result.method = requestContext.method

\* The fetcher is past the request hook.
PastRequestHook ==
  pc \in {"build", "loop", "fetching", "decoding", "respmw", "sleeping"}

C37_TimerAbortIsTimeout ==
  (~callerAborted /\ lastError.cause = "AbortError")
    => lastError.name = "TimeoutError"

\* C38: the predicate is consulted at most once per failed attempt, with
\* the indices 0, 1, 2, ... of the failed attempts, never for the attempt
\* with index maxRetries and never after a successful attempt.
C38_PredicateCalls ==
  predicateCall # NoCall =>
    /\ predicateCall.retryCount = failures - 1
    /\ predicateCall.retryCount >= 0
    /\ predicateCall.retryCount < maxRetries
    /\ predicateCall.retryCount \in {attempt, attempt - 1}

C38_Witness ==
  /\ predicateCall # NoCall
  /\ predicateCall.retryCount = 1
  /\ maxRetries = 2
  /\ failures = 2
  /\ pc = "sleeping"

\* URL resolution, the request hook and the building of the request did not
\* fail.
RequestBuilt ==
  /\ result.name # "PathParameterError"
  /\ ~(result.name = "MiddlewareError" /\ result.phase = "request")
  /\ ~(result.name = "TypeError" /\ errs = {})

\* C40: an invocation whose URL resolution, request hook and body encoding
\* succeed and whose caller signal is not aborted makes at least one
\* transport call before it settles, for every merged retry policy.
C40_AtLeastOneCall ==
  (Settled /\ RequestBuilt /\ ~callerAborted) => calls >= 1

\* The body of the response being processed can be read and parsed by the
\* reader processResponse chooses for it.
Decodable ==
  /\ rs.body # "unreadable"
  /\ (Reader(rs.responseType, rs.contentType) = "json" => rs.body = "json")

\* C39: decoding precedes status validation: a response whose status fails
\* the validator and whose body cannot be decoded fails with a
\* SerializationError rather than an HttpError, so every HttpError carries
\* successfully decoded data.
C39_DecodeBeforeStatus ==
  Processed =>
    /\ (~StatusPasses /\ ~Decodable) =>
         (rs.out.kind = "error" /\ rs.out.name = "SerializationError")
    /\ rs.out.name = "HttpError" =>
         (Decodable /\ rs.out.data = DecodedBody /\ rs.out.data # NoData)

C39_Witness ==
  /\ Processed
  /\ rs.status = 500
  /\ rs.validateStatus = <<>>
  /\ rs.contentType = "application/json"
  /\ rs.responseType = Undefined
  /\ rs.body = "notJson"
  /\ rs.out.name = "SerializationError"

\* The chunks start() has read from the source so far.
ChunksRead == Len(stream.body) - Len(stream.source)

RECURSIVE SumOf(_, _)
SumOf(seq, n) == IF n = 0 THEN 0 ELSE seq[n] + SumOf(seq, n - 1)

\* What the instrumented stream has handed or will hand to its consumer.
Forwarded == stream.taken \o stream.queue

\* C33: the callback is invoked exactly once per source chunk, in source
\* order and before the chunk is forwarded, with transferredBytes the sum of
\* the lengths of the chunks seen so far; the downstream receives exactly
\* the source's chunks, in order, and terminates when the source does.
C33_StreamTransparent ==
  stream.pc # "none" =>
    /\ Len(stream.events) = ChunksRead
    /\ \A i \in 1..Len(stream.events) :
         /\ stream.events[i].chunk = stream.body[i]
         /\ stream.events[i].transferredBytes = SumOf(stream.body, i)
         /\ stream.events[i].totalBytes = stream.totalBytes
    /\ Len(Forwarded) <= Len(stream.events)
    /\ \A i \in 1..Len(Forwarded) : Forwarded[i] = stream.body[i]
    /\ (~stream.cancelled /\ stream.state # "errored") =>
         Len(Forwarded) = ChunksRead
    /\ (stream.pc = "finished" /\ ~stream.cancelled) =>
         /\ stream.source = <<>>
         /\ stream.closeRequested
         /\ stream.transferredBytes = SumOf(stream.body, Len(stream.body))
         /\ stream.queue = <<>> => stream.state \in {"closed", "errored"}
         /\ ~stream.sourceFails => Forwarded = stream.body

C33_Witness ==
  /\ stream.pc = "finished"
  /\ stream.direction = "download"
  /\ stream.body = <<1, 2, 1>>
  /\ ~stream.sourceFails
  /\ stream.taken = <<1, 2, 1>>
  /\ stream.state = "closed"
  /\ stream.events[3].transferredBytes = 4

\* C34: the instrumentor does not buffer the whole body: the chunks read
\* from the source and not yet taken by the consumer never make up the
\* whole body of a stream of more than one chunk.
C34_NoWholeBodyBuffered ==
  (stream.pc # "none" /\ Len(stream.body) > 1) =>
    Len(stream.queue) < Len(stream.body)

\* C35: when the consumer cancels the instrumented stream, reading from the
\* source stops, the reader's lock is released, no callback is invoked for
\* a later chunk and the instrumentor raises no error.
C35_CancelStopsPump ==
  (stream.pc # "none" /\ stream.cancelled) =>
    /\ Len(stream.events) = stream.eventsAtCancel
    /\ stream.thrown = "none"
    /\ stream.pc = "finished" => ~stream.locked

\* The baseUrl is empty, a leading-slash relative path, or a well-formed
\* absolute URL.
AcceptableBaseUrl ==
  client.baseUrl.form \in
    {"undefined", "empty", "slash", "path", "absolute", "opaque"}

\* C36: createHttpClient throws InvalidBaseUrlError, carrying the string,
\* exactly when baseUrl is neither empty, nor a leading-slash relative path,
\* nor a well-formed absolute URL, and every baseUrl it accepts resolves
\* request templates without a base-URL failure at request time.
C36_BaseUrlDecidedOnce ==
  client.pc \notin {"none", "creating"} =>
    /\ (client.pc = "failed") <=> ~AcceptableBaseUrl
    /\ client.pc = "failed" =>
         (client.error = "InvalidBaseUrlError"
            /\ client.normalized = client.baseUrl)
    /\ client.pc = "requested" => client.error = "none"

====
